---------------------------- MODULE Spec2Model ----------------------------
(***************************************************************************)
(* Absorbing-layer generator of the DRM mesh builder                       *)
(* (src/src/meshmaker/components/DRM/DRM.py, DRM.addAbsorbingLayer and     *)
(* DRM._addRectangularAbsorbingLayer; MeshMaker.py holds the same code).   *)
(*                                                                         *)
(* Geometry is kept on the integer lattice: every coordinate is an         *)
(* integer, so the code's comparisons against eps = 1e-6 are exact         *)
(* comparisons here, and cell centres are kept doubled (lo + hi).          *)
(***************************************************************************)
EXTENDS Integers, Sequences, FiniteSets, TLC

(* ----------------------------- bounds ---------------------------------- *)
\* largest number of cells of the interior mesh along one axis
MaxN == 2
\* largest numLayers argument tried
MaxLayers == 2
\* largest numPartitions argument tried
MaxParts == 2
\* largest number of elements registered before the mesh is assembled
MaxElements == 2
\* largest number of addAbsorbingLayer calls made on one model
MaxCalls == 1
\* Material instances created, and the largest start number of the tags
MaxMaterials == 3
MaxStart == 2
\* cells of a shell given to the retag step alone, and their largest tag
MaxShellCells == 3
MaxOldTag == 3
MaxConstraints == 2
MaxSP == 4

(* ------------------------ program constants ---------------------------- *)
Uint16Mod == 65536
NDF_PML == 9
NDF_Rayleigh == 3

\* Python's None and True, as the value of AssembeledMesh and of a call's
\* return value (records, so that they can be compared with a mesh)
None == [py |-> "None"]
True == [py |-> "True"]

VARIABLES
    AssembeledMesh,  \* meshmaker.assembler.AssembeledMesh: None or [points, cells]
    elements,        \* meshmaker.element: tag -> element, tags 1..Len
    dampings,        \* meshmaker.damping: tag -> damping
    regions,         \* meshmaker.region: tag -> region
    equalDofs,       \* meshmaker.constraint.mp: the equal-DOF constraints, in order
    call,            \* the last addAbsorbingLayer call: arguments, outcome, shell
    calls,           \* how many addAbsorbingLayer calls have been made
    export,          \* the last export_to_tcl call: arguments, outcome, progress
    Material,        \* the class attributes of Material: _materials, _matTags, _names, ...
    instances,       \* the Material instances created so far, by identity 1..Len
    matcall,         \* the last call on the Material class: arguments, outcome, result
    probe,           \* one step of the layer on given arrays: its inputs and its result
    SPConstraint     \* the class SPConstraint: _constraints, and the objects created

materialVars == <<Material, instances, matcall>>

vars == <<AssembeledMesh, elements, dampings, regions, equalDofs, call, calls, export,
          Material, instances, matcall, probe, SPConstraint>>

(* ----------------------------- helpers --------------------------------- *)
Min2(a, b) == IF a <= b THEN a ELSE b
Max2(a, b) == IF a >= b THEN a ELSE b
SetMin(S) == CHOOSE x \in S : \A y \in S : x <= y
SetMax(S) == CHOOSE x \in S : \A y \in S : x >= y
Range(s) == {s[i] : i \in DOMAIN s}

\* numpy .astype(uint16)
ToUint16(x) == x % Uint16Mod

\* the sequence s itself, held as a tuple
Seq1(s) == s \o <<>>

RECURSIVE Flatten(_)
\* concatenation of a sequence of sequences
Flatten(ss) == IF ss = <<>> THEN <<>> ELSE Head(ss) \o Flatten(Tail(ss))

(* ------------------------- the interior mesh --------------------------- *)
\* A structured nx x ny x nz mesh part of unit cells with its min corner at
\* the origin: points x-fastest with ndf 3, cells x-fastest, hexahedron
\* connectivity (VTK order).  p is the number of elements (and materials)
\* the cells use in turn, cp the Core pattern (0: unpartitioned, 1: two cores
\* 0 and 1 alternating along the cell index).
PointId(nx, ny, i, j, k) == 1 + i + (nx + 1) * j + (nx + 1) * (ny + 1) * k

\* A second mesh part of one coarse cell that covers the whole top of the
\* structured part (nx x ny x 1 in size); the two parts share the points on
\* the corners of the top face.
CoarsePart(nx, ny, nz, p, cp) ==
    LET n == (nx + 1) * (ny + 1) * (nz + 1)
    IN  [points |-> << [xyz |-> <<0, 0, nz + 1>>, ndf |-> 3],
                       [xyz |-> <<nx, 0, nz + 1>>, ndf |-> 3],
                       [xyz |-> <<nx, ny, nz + 1>>, ndf |-> 3],
                       [xyz |-> <<0, ny, nz + 1>>, ndf |-> 3] >>,
         cells  |-> << [conn |-> << PointId(nx, ny, 0, 0, nz), PointId(nx, ny, nx, 0, nz),
                                    PointId(nx, ny, nx, ny, nz), PointId(nx, ny, 0, ny, nz),
                                    n + 1, n + 2, n + 3, n + 4 >>,
                        MaterialTag |-> 1 + (nz % p),
                        ElementTag  |-> 1 + (nz % p),
                        Region      |-> nz % p,
                        Core        |-> (nx * ny * nz) % (cp + 1),
                        AbsorbingRegion |-> 0] >>]

StructuredMesh(nx, ny, nz, p, cp) ==
    [points |-> [q \in 1..((nx + 1) * (ny + 1) * (nz + 1)) |->
                    [xyz |-> << (q - 1) % (nx + 1),
                                ((q - 1) \div (nx + 1)) % (ny + 1),
                                (q - 1) \div ((nx + 1) * (ny + 1)) >>,
                     ndf |-> 3]],
     cells  |-> [q \in 1..(nx * ny * nz) |->
                    LET i == (q - 1) % nx
                        j == ((q - 1) \div nx) % ny
                        k == (q - 1) \div (nx * ny)
                    IN  [conn |-> << PointId(nx, ny, i, j, k),
                                     PointId(nx, ny, i + 1, j, k),
                                     PointId(nx, ny, i + 1, j + 1, k),
                                     PointId(nx, ny, i, j + 1, k),
                                     PointId(nx, ny, i, j, k + 1),
                                     PointId(nx, ny, i + 1, j, k + 1),
                                     PointId(nx, ny, i + 1, j + 1, k + 1),
                                     PointId(nx, ny, i, j + 1, k + 1) >>,
                         MaterialTag |-> 1 + ((i + j + k) % p),
                         ElementTag  |-> 1 + ((i + j + k) % p),
                         Region      |-> (i + j + k) % p,
                         Core        |-> (q - 1) % (cp + 1),
                         AbsorbingRegion |-> 0]]]

\* mesh m with the Region of every cell raised by r
WithRegion(m, r) ==
    [m EXCEPT !.cells = Seq1([q \in DOMAIN m.cells |->
                                [m.cells[q] EXCEPT !.Region = m.cells[q].Region + r]])]

\* the assembled mesh of the model: the structured part, with the coarse part
\* on top of it when coarse is TRUE
AssembledMeshOf(nx, ny, nz, p, cp, coarse) ==
    LET s == StructuredMesh(nx, ny, nz, p, cp)
        c == CoarsePart(nx, ny, nz, p, cp)
    IN  IF coarse THEN [points |-> s.points \o c.points, cells |-> s.cells \o c.cells]
        ELSE [points |-> Seq1(s.points), cells |-> Seq1(s.cells)]

\* mesh.bounds: <<xmin, xmax, ymin, ymax, zmin, zmax>> over the points
MeshBounds(m) ==
    LET P == Range(m.points)
    IN  << SetMin({pt.xyz[1] : pt \in P}), SetMax({pt.xyz[1] : pt \in P}),
           SetMin({pt.xyz[2] : pt \in P}), SetMax({pt.xyz[2] : pt \in P}),
           SetMin({pt.xyz[3] : pt \in P}), SetMax({pt.xyz[3] : pt \in P}) >>

\* cell.bounds of a cell of mesh m, as [lo, hi]
CellBox(m, c) ==
    LET P == {m.points[c.conn[n]].xyz : n \in 1..8}
    IN  [lo |-> << SetMin({x[1] : x \in P}), SetMin({x[2] : x \in P}),
                   SetMin({x[3] : x \in P}) >>,
         hi |-> << SetMax({x[1] : x \in P}), SetMax({x[2] : x \in P}),
                   SetMax({x[3] : x \in P}) >>]

\* mesh.cell_data["Core"].max()
MaxCore(m) == SetMax({m.cells[q].Core : q \in DOMAIN m.cells})


(* ------------------------- RegionClassifier ---------------------------- *)
\* mesh.copy().clip_surface(cube, invert=False, crinkle=True): the cells with
\* a part outside the box shrunk by eps on x, y and zmin and open at the top
\* (zmax + 10), in the order of the mesh.
\* The result is the sequence of the indices of those cells.
OutsideCube(box, B) ==
    \/ box.lo[1] <= B[1] \/ box.hi[1] >= B[2]
    \/ box.lo[2] <= B[3] \/ box.hi[2] >= B[4]
    \/ box.lo[3] <= B[5]

ClippedIdx(m) ==
    LET B == MeshBounds(m)
        Keep(q) == OutsideCube(CellBox(m, m.cells[q]), B)
    IN  SelectSeq([q \in 1..Len(m.cells) |-> q], Keep)

\* twice the cell centre (clipped.cell_centers)
Center2(box) == << box.lo[1] + box.hi[1], box.lo[2] + box.hi[2],
                   box.lo[3] + box.hi[3] >>

\* cellCenters.bounds, doubled
CenterBounds2(boxes) ==
    LET C == {Center2(boxes[q]) : q \in DOMAIN boxes}
    IN  << SetMin({c[1] : c \in C}), SetMax({c[1] : c \in C}),
           SetMin({c[2] : c \in C}), SetMax({c[2] : c \in C}),
           SetMin({c[3] : c \in C}), SetMax({c[3] : c \in C}) >>

\* the five boolean masks of one cell
Flags(box, CB) ==
    LET c == Center2(box)
    IN  [left   |-> c[1] = CB[1], right |-> c[1] = CB[2],
         front  |-> c[2] = CB[3], back  |-> c[2] = CB[4],
         bottom |-> c[3] = CB[5]]

\* the mask of the r-th assignment to cell_data['absRegion']
RegionMask(r, f) ==
    CASE r = 1  -> f.left
      [] r = 2  -> f.right
      [] r = 3  -> f.front
      [] r = 4  -> f.back
      [] r = 5  -> f.bottom
      [] r = 6  -> f.left /\ f.front
      [] r = 7  -> f.left /\ f.back
      [] r = 8  -> f.right /\ f.front
      [] r = 9  -> f.right /\ f.back
      [] r = 10 -> f.left /\ f.bottom
      [] r = 11 -> f.right /\ f.bottom
      [] r = 12 -> f.front /\ f.bottom
      [] r = 13 -> f.back /\ f.bottom
      [] r = 14 -> f.left /\ f.front /\ f.bottom
      [] r = 15 -> f.left /\ f.back /\ f.bottom
      [] r = 16 -> f.right /\ f.front /\ f.bottom
      [] r = 17 -> f.right /\ f.back /\ f.bottom

NumRegions == 17

\* the 17 masked assignments, applied in the order of the code to a value
\* that starts at zeros(): a later assignment overwrites an earlier one
\* AssignRegions with the first matching assignment kept: a later assignment
\* does not overwrite a code already given
RECURSIVE AssignRegions_FirstMatchWins(_, _, _)
AssignRegions_FirstMatchWins(code, r, f) ==
    IF r > NumRegions THEN code
    ELSE AssignRegions_FirstMatchWins(IF RegionMask(r, f) /\ code = 0 THEN r ELSE code,
                                      r + 1, f)

RECURSIVE AssignRegions(_, _, _)
AssignRegions(code, r, f) ==
    IF r > NumRegions THEN code
    ELSE AssignRegions(IF RegionMask(r, f) THEN r ELSE code, r + 1, f)

\* AbsRegion by the first matching assignment
AbsRegion_FirstMatchWins(f) == AssignRegions_FirstMatchWins(0, 1, f)

AbsRegion(f) == AssignRegions(0, 1, f)

normals ==
    << <<-1, 0, 0>>, <<1, 0, 0>>, <<0, -1, 0>>, <<0, 1, 0>>, <<0, 0, -1>>,
       <<-1, -1, 0>>, <<-1, 1, 0>>, <<1, -1, 0>>, <<1, 1, 0>>,
       <<-1, 0, -1>>, <<1, 0, -1>>, <<0, -1, -1>>, <<0, 1, -1>>,
       <<-1, -1, -1>>, <<-1, 1, -1>>, <<1, -1, -1>>, <<1, 1, -1>> >>

\* normals[absregion-1]: a Python list index, so absregion 0 reads normals[-1],
\* the last entry
NormalOf(absregion) ==
    IF absregion = 0 THEN normals[Len(normals)] ELSE normals[absregion]

(* --------------------------- LayerExtruder ----------------------------- *)
\* One iteration of the extrusion loop, for the cell with bounds box and
\* normal n: the element sizes d, the low corner lo and the number of cells
\* cnt along each axis of the three arange grids.
ExtrudeGrid(box, n, numLayers) ==
    LET d  == [a \in 1..3 |-> box.hi[a] - box.lo[a]]
        lo == [a \in 1..3 |-> Min2(box.lo[a] + n[a] * numLayers * d[a], box.lo[a])]
        hi == [a \in 1..3 |-> Max2(box.hi[a] + n[a] * numLayers * d[a], box.hi[a])]
    \* len(arange(min, max + 1e-6, d)) - 1
    IN  [d |-> Seq1(d), lo |-> Seq1(lo),
         cnt |-> Seq1([a \in 1..3 |-> (hi[a] - lo[a]) \div d[a]])]

\* pv.StructuredGrid(X, Y, Z) on those grids: its cells x-fastest, each with
\* the tags appended for the block (cast to uint16 by the broadcast loop)
GridCells(g, absregion, src) ==
    [q \in 1..(g.cnt[1] * g.cnt[2] * g.cnt[3]) |->
        [lo |-> << g.lo[1] + ((q - 1) % g.cnt[1]) * g.d[1],
                   g.lo[2] + (((q - 1) \div g.cnt[1]) % g.cnt[2]) * g.d[2],
                   g.lo[3] + ((q - 1) \div (g.cnt[1] * g.cnt[2])) * g.d[3] >>,
         hi |-> << g.lo[1] + ((q - 1) % g.cnt[1]) * g.d[1] + g.d[1],
                   g.lo[2] + (((q - 1) \div g.cnt[1]) % g.cnt[2]) * g.d[2] + g.d[2],
                   g.lo[3] + ((q - 1) \div (g.cnt[1] * g.cnt[2])) * g.d[3] + g.d[3] >>,
         MaterialTag     |-> ToUint16(src.MaterialTag),
         ElementTag      |-> ToUint16(src.ElementTag),
         AbsorbingRegion |-> ToUint16(absregion),
         Region          |-> ToUint16(src.Region),
         Core            |-> 0]]

\* one pass of the extrusion loop: the block of cells grown from one clipped cell
ExtrudeBlock(box, absregion, src, numLayers) ==
    GridCells(ExtrudeGrid(box, NormalOf(absregion), numLayers), absregion, src)

(* --------------------------- ShellAssembler ---------------------------- *)
\* Absorbing.find_cells_within_bounds(cellCenters.bounds): the cells whose
\* bounding box meets the box of the cell centres (CB is doubled)
WithinBounds(c, CB) ==
    /\ 2 * c.lo[1] <= CB[2] /\ 2 * c.hi[1] >= CB[1]
    /\ 2 * c.lo[2] <= CB[4] /\ 2 * c.hi[2] >= CB[3]
    /\ 2 * c.lo[3] <= CB[6] /\ 2 * c.hi[3] >= CB[5]

\* RemoveInside without the removal: every extruded cell stays in the shell
RemoveInside_KeepsAll(cellsSeq, CB) == cellsSeq

\* indicies[Absorbingidx] = False; Absorbing.extract_cells(indicies)
RemoveInside(cellsSeq, CB) ==
    LET Keep(c) == ~WithinBounds(c, CB)
    IN  SelectSeq(cellsSeq, Keep)

(* --------------------------- ElementRetagger --------------------------- *)
RECURSIVE SortedSeq(_)
\* numpy.unique: the distinct values in increasing order
SortedSeq(S) ==
    IF S = {} THEN <<>>
    ELSE LET x == SetMin(S) IN <<x>> \o SortedSeq(S \ {x})

ElasticIsotropic == [material_name |-> "ElasticIsotropic", material_type |-> "nDMaterial"]
J2Plasticity == [material_name |-> "J2CyclicBoundingSurface", material_type |-> "nDMaterial"]

BrickTypes == {"stdBrick", "bbarBrick", "SSPbrick"}

\* element.create_element(...): the registry gives the new element the next tag
RegisterElement(els, element_type, ndof, mat) ==
    Append(els, [element_type |-> element_type, ndof |-> ndof, material |-> mat])

\* CreatePMLElements without the checks of the element type and material
CreatePMLElements_Unchecked(tags, els, PMLTags, ndof) ==
    [err |-> "ok",
     elements |-> els \o [k \in DOMAIN tags |->
                     [element_type |-> "PML3D", ndof |-> ndof,
                      material |-> els[tags[k]].material]],
     PMLTags |-> [t \in Range(tags) |->
                     Len(els) + (CHOOSE k \in DOMAIN tags : tags[k] = t)]]

\* CreatePMLElements with the check of the material but not of the element type
CreatePMLElements_MaterialOnly(tags, els, PMLTags, ndof) ==
    IF \E k \in DOMAIN tags :
          \/ els[tags[k]].material.material_name # "ElasticIsotropic"
          \/ els[tags[k]].material.material_type # "nDMaterial"
    THEN [err |-> "material", elements |-> els, PMLTags |-> PMLTags]
    ELSE CreatePMLElements_Unchecked(tags, els, PMLTags, ndof)

\* CreatePMLElements with a single PML element shared by every tag
CreatePMLElements_OneForAll(tags, els, PMLTags, ndof) ==
    IF tags = <<>> THEN [err |-> "ok", elements |-> els, PMLTags |-> PMLTags]
    ELSE [err |-> "ok",
          elements |-> RegisterElement(els, "PML3D", ndof, els[Head(tags)].material),
          PMLTags |-> [t \in Range(tags) |-> Len(els) + 1]]

\* the loop "for tag in EleTags": checks the element of each tag in turn and
\* creates its PML element; stops at the first element that fails a check
RECURSIVE CreatePMLElements(_, _, _, _)
CreatePMLElements(tags, els, PMLTags, ndof) ==
    IF tags = <<>> THEN [err |-> "ok", elements |-> els, PMLTags |-> PMLTags]
    ELSE LET tag == Head(tags)
             ele == els[tag]
             mat == ele.material
         IN  IF ele.element_type \notin BrickTypes
             THEN [err |-> "eleType", elements |-> els, PMLTags |-> PMLTags]
             ELSE IF mat.material_name # "ElasticIsotropic" \/ mat.material_type # "nDMaterial"
             THEN [err |-> "material", elements |-> els, PMLTags |-> PMLTags]
             ELSE LET els2 == RegisterElement(els, "PML3D", ndof, mat)
                  IN  CreatePMLElements(Tail(tags), els2,
                                        PMLTags @@ (tag :> Len(els2)), ndof)

\* the loop "for i, tag in enumerate(EleTags)": ElementTag[ElementTag == tag] =
\* PMLTags[tag], one tag after the other, in place in the uint16 array
RECURSIVE RewriteTags(_, _, _)
RewriteTags(cellsSeq, tags, PMLTags) ==
    IF tags = <<>> THEN cellsSeq
    ELSE LET tag == Head(tags)
             step == Seq1([q \in DOMAIN cellsSeq |->
                        IF cellsSeq[q].ElementTag = tag
                        THEN [cellsSeq[q] EXCEPT !.ElementTag = ToUint16(PMLTags[tag])]
                        ELSE cellsSeq[q]])
         IN  RewriteTags(step, Tail(tags), PMLTags)

(* --------------------------- ShellPartitioner -------------------------- *)
\* PartitionOf with the groups counted from 1
PartitionOf_FromOne(q, n, numPartitions) == 1 + ((q - 1) * numPartitions) \div n

\* Absorbing.partition(numPartitions, generate_global_id=True): the index of
\* the group of cell q of n cells; the groups are contiguous runs of cells
PartitionOf(q, n, numPartitions) == ((q - 1) * numPartitions) \div n

\* AssignCore without the "+ 1": the shell shares the last core of the interior
AssignCore_NoOffset(cellsSeq, numPartitions, num_partitions) ==
    IF numPartitions > 1
    THEN [q \in DOMAIN cellsSeq |->
            [cellsSeq[q] EXCEPT !.Core =
                PartitionOf(q, Len(cellsSeq), numPartitions) + num_partitions]]
    ELSE IF numPartitions = 1
    THEN [q \in DOMAIN cellsSeq |-> [cellsSeq[q] EXCEPT !.Core = num_partitions]]
    ELSE cellsSeq

\* the Core array of the shell
AssignCore(cellsSeq, numPartitions, num_partitions) ==
    IF numPartitions > 1
    THEN [q \in DOMAIN cellsSeq |->
            [cellsSeq[q] EXCEPT !.Core =
                PartitionOf(q, Len(cellsSeq), numPartitions) + num_partitions + 1]]
    ELSE IF numPartitions = 1
    THEN [q \in DOMAIN cellsSeq |-> [cellsSeq[q] EXCEPT !.Core = num_partitions + 1]]
    ELSE cellsSeq

(* ------------------------- damping and region -------------------------- *)
\* damping.create_damping("frequency rayleigh", dampingFactor=rayleighDamping)
RegisterDamping(dmp) == Append(dmp, [damping_type |-> "frequency rayleigh"])
\* region.create_region("elementRegion", damping=damping)
RegisterRegion(reg, dampingTag) ==
    Append(reg, [region_type |-> "elementRegion", damping |-> dampingTag,
                 component |-> <<>>])

\* Absorbing.cell_data["Region"] = full(n_cells, region.tag, dtype=uint16)
SetRegion(cellsSeq, tag) ==
    [q \in DOMAIN cellsSeq |-> [cellsSeq[q] EXCEPT !.Region = ToUint16(tag)]]

(* ------------------------------ the merge ------------------------------ *)
\* the 8 corners of an axis-aligned cell, in hexahedron order
Corners(c) ==
    << <<c.lo[1], c.lo[2], c.lo[3]>>, <<c.hi[1], c.lo[2], c.lo[3]>>,
       <<c.hi[1], c.hi[2], c.lo[3]>>, <<c.lo[1], c.hi[2], c.lo[3]>>,
       <<c.lo[1], c.lo[2], c.hi[3]>>, <<c.hi[1], c.lo[2], c.hi[3]>>,
       <<c.hi[1], c.hi[2], c.hi[3]>>, <<c.lo[1], c.hi[2], c.hi[3]>> >>

\* The points of the shell after combine(merge_points=True), extract_cells and
\* clean(tolerance=1e-6, remove_unused_points=True): one point per coordinate
\* that a remaining cell uses.
ShellCoords(shell) == UNION {Range(Corners(shell[q])) : q \in DOMAIN shell}

\* the bounding lattice of a set of integer coordinates
Lattice(All) ==
    [x0 |-> SetMin({c[1] : c \in All}),
     y0 |-> SetMin({c[2] : c \in All}),
     z0 |-> SetMin({c[3] : c \in All}),
     W  |-> SetMax({c[1] : c \in All}) - SetMin({c[1] : c \in All}) + 1,
     H  |-> SetMax({c[2] : c \in All}) - SetMin({c[2] : c \in All}) + 1,
     D  |-> SetMax({c[3] : c \in All}) - SetMin({c[3] : c \in All}) + 1]

\* the lattice key of a coordinate, and the coordinate of a key
Key(G, c) == 1 + (c[1] - G.x0) + G.W * (c[2] - G.y0) + G.W * G.H * (c[3] - G.z0)
Coord(G, k) ==
    << G.x0 + ((k - 1) % G.W), G.y0 + (((k - 1) \div G.W) % G.H),
       G.z0 + ((k - 1) \div (G.W * G.H)) >>

\* rank[k]: how many shell keys are <= k, which is the index of the shell
\* point of key k
Rank(G, K) ==
    Seq1([k \in 1..(G.W * G.H * G.D) |-> Cardinality({j \in K : j <= k})])

\* the connectivity of a shell cell in the merged mesh
ShellConn(G, rank, c) ==
    << rank[Key(G, <<c.lo[1], c.lo[2], c.lo[3]>>)], rank[Key(G, <<c.hi[1], c.lo[2], c.lo[3]>>)],
       rank[Key(G, <<c.hi[1], c.hi[2], c.lo[3]>>)], rank[Key(G, <<c.lo[1], c.hi[2], c.lo[3]>>)],
       rank[Key(G, <<c.lo[1], c.lo[2], c.hi[3]>>)], rank[Key(G, <<c.hi[1], c.lo[2], c.hi[3]>>)],
       rank[Key(G, <<c.hi[1], c.hi[2], c.hi[3]>>)], rank[Key(G, <<c.lo[1], c.hi[2], c.hi[3]>>)] >>

\* the merge on the lattice G, with K the keys of the shell's points, rank
\* their indices and mkeys the keys of the main mesh's points
MergeOn(m, shell, ndof, mergeFlag, G, K, rank, mkeys) ==
    LET InK(k) == k \in K
        \* the shell's keys in increasing order
        keys == SelectSeq([k \in 1..(G.W * G.H * G.D) |-> k], InK)
        n    == Cardinality(K)
        \* the main mesh's points: one whose coordinate is no shell point's and
        \* no earlier main point's is appended after the shell's points
        First(i) == SetMin({j \in 1..i : mkeys[j] = mkeys[i]})
        IsNew(i) == mkeys[i] \notin K /\ First(i) = i
        added == SelectSeq([i \in DOMAIN mkeys |-> i], IsNew)
        NewIndex(i) ==
            IF mergeFlag
            THEN (IF mkeys[i] \in K THEN rank[mkeys[i]]
                  ELSE n + Cardinality({j \in DOMAIN added : added[j] <= First(i)}))
            ELSE n + i
        FirstOf(k) == IF \E i \in DOMAIN mkeys : mkeys[i] = k
                      THEN SetMin({i \in DOMAIN mkeys : mkeys[i] = k}) ELSE 0
        spts == [i \in 1..n |->
                    [xyz |-> Coord(G, keys[i]),
                     ndf |-> IF mergeFlag /\ FirstOf(keys[i]) > 0
                             THEN m.points[FirstOf(keys[i])].ndf ELSE ndof]]
        scells == [q \in DOMAIN shell |->
                    [conn |-> ShellConn(G, rank, shell[q]),
                     MaterialTag |-> shell[q].MaterialTag,
                     ElementTag  |-> shell[q].ElementTag,
                     Region      |-> shell[q].Region,
                     Core        |-> shell[q].Core,
                     AbsorbingRegion |-> shell[q].AbsorbingRegion]]
        mcells == [q \in DOMAIN m.cells |->
                    [m.cells[q] EXCEPT !.conn = [k \in 1..8 |-> NewIndex(m.cells[q].conn[k])],
                                       !.AbsorbingRegion = 0]]
        mpts == IF mergeFlag THEN [j \in DOMAIN added |-> m.points[added[j]]]
                ELSE m.points
    IN  [points |-> spts \o mpts, cells |-> scells \o mcells]

\* the merge once the lattice is known
MergeInLattice(m, shell, ndof, mergeFlag, G) ==
    MergeOn(m, shell, ndof, mergeFlag, G,
            {Key(G, c) : c \in ShellCoords(shell)},
            Rank(G, {Key(G, c) : c \in ShellCoords(shell)}),
            Seq1([i \in DOMAIN m.points |-> Key(G, m.points[i].xyz)]))

\* mesh.merge(Absorbing, merge_points=mergeFlag, tolerance=1e-6): pyvista
\* appends the shell first and the main mesh last (main_has_priority); with
\* merge_points the coincident points become one point, which keeps the main
\* mesh's point data.  The main mesh is the copy whose AbsorbingRegion was set
\* to zeros.  The shell's points are those left by combine(merge_points=True),
\* extract_cells and clean: one per coordinate that a shell cell uses, here
\* ordered by z, then y, then x (the lattice key of a coordinate is its
\* position in that order within the bounding box of all points).
MergeMesh(m, shell, ndof, mergeFlag) ==
    MergeInLattice(m, shell, ndof, mergeFlag,
        Lattice(ShellCoords(shell) \cup {m.points[i].xyz : i \in DOMAIN m.points}))

(* -------------------------- InterfaceStitcher -------------------------- *)
\* mask = where(~mask): the indices of the points of the interior mesh that are
\* not strictly inside the shrunk box, in increasing order
InterfaceIdx(m) ==
    LET B == MeshBounds(m)
        Inside(i) == LET x == m.points[i].xyz
                     IN  /\ x[1] > B[1] /\ x[1] < B[2]
                         /\ x[2] > B[3] /\ x[2] < B[4]
                         /\ x[3] > B[5] /\ x[3] < B[6] + 10
        Keep(i) == ~Inside(i)
    IN  SelectSeq([i \in 1..Len(m.points) |-> i], Keep)

\* tree.query(interfacepoints, k=2) on the calls mesh, for one point: the
\* points of the calls mesh at distance 0 (at most the two of least index);
\* fewer than two mean that the second neighbour is farther than 1e-6
Coincident(M, x) == {j \in 1..Len(M.points) : M.points[j].xyz = x}

TwoNearest(M, x) ==
    LET N == Coincident(M, x)
    IN  IF Cardinality(N) < 2 THEN <<>>
        ELSE LET a == SetMin(N) IN <<a, SetMin(N \ {a})>>

\* CreateEqualDofs that stops after the first interface point
CreateEqualDofs_FirstOnly(M, pairs, eqs) ==
    IF pairs = <<>> THEN [err |-> "ok", equalDofs |-> eqs]
    ELSE IF {M.points[Head(pairs)[1]].ndf, M.points[Head(pairs)[2]].ndf} = {3, 9}
    THEN [err |-> "ok",
          equalDofs |-> Append(eqs,
              [master |-> IF M.points[Head(pairs)[1]].ndf = 3
                          THEN Head(pairs)[1] ELSE Head(pairs)[2],
               slaves |-> << IF M.points[Head(pairs)[1]].ndf = 3
                             THEN Head(pairs)[2] ELSE Head(pairs)[1] >>,
               dofs |-> <<1, 2, 3>>])]
    ELSE [err |-> "ndf", equalDofs |-> eqs]

RECURSIVE CreateEqualDofs_MasterIsPML(_, _, _)
\* CreateEqualDofs with the roles exchanged: the node of 9 DOFs is the master
CreateEqualDofs_MasterIsPML(M, pairs, eqs) ==
    IF pairs = <<>> THEN [err |-> "ok", equalDofs |-> eqs]
    ELSE IF {M.points[Head(pairs)[1]].ndf, M.points[Head(pairs)[2]].ndf} = {3, 9}
    THEN CreateEqualDofs_MasterIsPML(M, Tail(pairs), Append(eqs,
              [master |-> IF M.points[Head(pairs)[1]].ndf = 9
                          THEN Head(pairs)[1] ELSE Head(pairs)[2],
               slaves |-> << IF M.points[Head(pairs)[1]].ndf = 9
                             THEN Head(pairs)[2] ELSE Head(pairs)[1] >>,
               dofs |-> <<1, 2, 3>>]))
    ELSE [err |-> "ndf", equalDofs |-> eqs]

RECURSIVE CreateEqualDofs_LastFirst(_, _, _)
\* CreateEqualDofs walking the interface points from the last to the first
CreateEqualDofs_LastFirst(M, pairs, eqs) ==
    IF pairs = <<>> THEN [err |-> "ok", equalDofs |-> eqs]
    ELSE IF {M.points[pairs[Len(pairs)][1]].ndf, M.points[pairs[Len(pairs)][2]].ndf} = {3, 9}
    THEN CreateEqualDofs_LastFirst(M, SubSeq(pairs, 1, Len(pairs) - 1), Append(eqs,
              [master |-> IF M.points[pairs[Len(pairs)][1]].ndf = 3
                          THEN pairs[Len(pairs)][1] ELSE pairs[Len(pairs)][2],
               slaves |-> << IF M.points[pairs[Len(pairs)][1]].ndf = 3
                             THEN pairs[Len(pairs)][2] ELSE pairs[Len(pairs)][1] >>,
               dofs |-> <<1, 2, 3>>]))
    ELSE [err |-> "ndf", equalDofs |-> eqs]

\* the loop "for i, index in enumerate(indices)"
RECURSIVE CreateEqualDofs(_, _, _)
CreateEqualDofs(M, pairs, eqs) ==
    IF pairs = <<>> THEN [err |-> "ok", equalDofs |-> eqs]
    ELSE LET index == Head(pairs)
             ndf1 == M.points[index[1]].ndf
             ndf2 == M.points[index[2]].ndf
         IN  IF ndf1 = 9 /\ ndf2 = 3
             THEN CreateEqualDofs(M, Tail(pairs),
                     Append(eqs, [master |-> index[2], slaves |-> <<index[1]>>,
                                  dofs |-> <<1, 2, 3>>]))
             ELSE IF ndf1 = 3 /\ ndf2 = 9
             THEN CreateEqualDofs(M, Tail(pairs),
                     Append(eqs, [master |-> index[1], slaves |-> <<index[2]>>,
                                  dofs |-> <<1, 2, 3>>]))
             ELSE [err |-> "ndf", equalDofs |-> eqs]

\* Stitch with the distance check only: no equal-DOF constraint is created
Stitch_NoConstraints(m, M, eqs) ==
    LET ip    == InterfaceIdx(m)
        pairs == [q \in DOMAIN ip |-> TwoNearest(M, m.points[ip[q]].xyz)]
    IN  IF \E q \in DOMAIN pairs : pairs[q] = <<>>
        THEN [err |-> "distance", equalDofs |-> eqs]
        ELSE [err |-> "ok", equalDofs |-> eqs]

\* the whole stitching block after the merge
Stitch(m, M, eqs) ==
    LET ip    == InterfaceIdx(m)
        pairs == [q \in DOMAIN ip |-> TwoNearest(M, m.points[ip[q]].xyz)]
    IN  IF \E q \in DOMAIN pairs : pairs[q] = <<>>
        THEN [err |-> "distance", equalDofs |-> eqs]
        ELSE CreateEqualDofs(M, pairs, eqs)

(* --------------------------- addAbsorbingLayer ------------------------- *)
NoType == "<no type>"   \* 'type' not in kwargs
NoCallback == "<no callback>"   \* progress_callback=None

Ok == [kind |-> "ok", at |-> "ok"]
Raise(kind, at) == [kind |-> kind, at |-> at]

\* EntryCheck with the Cylindrical geometry dispatched like the Rectangular one
EntryCheck_CylindricalFallsBack(m, a) ==
    IF m = None THEN Raise("ValueError", "mesh")
    ELSE IF a.numLayers < 1 THEN Raise("ValueError", "numLayers")
    ELSE IF a.numPartitions < 0 THEN Raise("ValueError", "numPartitions")
    ELSE IF a.geometry \notin {"Rectangular", "Cylindrical"}
        THEN Raise("ValueError", "geometry")
    ELSE IF a.partitionAlgo \notin {"kd-tree", "metis"}
        THEN Raise("ValueError", "partitionAlgo")
    ELSE IF a.partitionAlgo = "metis" THEN Raise("NotImplementedError", "metis")
    ELSE Ok

\* the checks of addAbsorbingLayer, in the order of the code, up to the
\* dispatch on geometry
EntryCheck(m, a) ==
    IF m = None THEN Raise("ValueError", "mesh")
    ELSE IF a.numLayers < 1 THEN Raise("ValueError", "numLayers")
    ELSE IF a.numPartitions < 0 THEN Raise("ValueError", "numPartitions")
    ELSE IF a.geometry \notin {"Rectangular", "Cylindrical"}
        THEN Raise("ValueError", "geometry")
    ELSE IF a.partitionAlgo \notin {"kd-tree", "metis"}
        THEN Raise("ValueError", "partitionAlgo")
    ELSE IF a.partitionAlgo = "metis" THEN Raise("NotImplementedError", "metis")
    ELSE IF a.geometry = "Rectangular" THEN Ok
    ELSE Raise("NotImplementedError", "Cylindrical")

\* RectCheck with an unknown type reported as not implemented
RectCheck_UnknownTypeNotImplemented(m, a) ==
    IF m = None THEN Raise("ValueError", "mesh")
    ELSE IF a.numLayers < 1 THEN Raise("ValueError", "numLayers")
    ELSE IF a.numPartitions < 0 THEN Raise("ValueError", "numPartitions")
    ELSE IF a.partitionAlgo \notin {"kd-tree", "metis"}
        THEN Raise("ValueError", "partitionAlgo")
    ELSE IF a.partitionAlgo = "metis" THEN Raise("NotImplementedError", "metis")
    ELSE IF a.type = NoType THEN Raise("ValueError", "typeMissing")
    ELSE IF a.type \notin {"PML", "Rayleigh", "ASDA"}
        THEN Raise("NotImplementedError", "type")
    ELSE IF a.type = "ASDA" THEN Raise("NotImplementedError", "ASDA")
    ELSE Ok

\* RectCheck without the raise in the ASDA branch
RectCheck_ASDAGoesOn(m, a) ==
    IF m = None THEN Raise("ValueError", "mesh")
    ELSE IF a.numLayers < 1 THEN Raise("ValueError", "numLayers")
    ELSE IF a.numPartitions < 0 THEN Raise("ValueError", "numPartitions")
    ELSE IF a.partitionAlgo \notin {"kd-tree", "metis"}
        THEN Raise("ValueError", "partitionAlgo")
    ELSE IF a.partitionAlgo = "metis" THEN Raise("NotImplementedError", "metis")
    ELSE IF a.type = NoType THEN Raise("ValueError", "typeMissing")
    ELSE IF a.type \notin {"PML", "Rayleigh", "ASDA"} THEN Raise("ValueError", "type")
    ELSE Ok

\* the checks at the head of _addRectangularAbsorbingLayer, up to the type
RectCheck(m, a) ==
    IF m = None THEN Raise("ValueError", "mesh")
    ELSE IF a.numLayers < 1 THEN Raise("ValueError", "numLayers")
    ELSE IF a.numPartitions < 0 THEN Raise("ValueError", "numPartitions")
    ELSE IF a.partitionAlgo \notin {"kd-tree", "metis"}
        THEN Raise("ValueError", "partitionAlgo")
    ELSE IF a.partitionAlgo = "metis" THEN Raise("NotImplementedError", "metis")
    ELSE IF a.type = NoType THEN Raise("ValueError", "typeMissing")
    ELSE IF a.type \notin {"PML", "Rayleigh", "ASDA"} THEN Raise("ValueError", "type")
    ELSE IF a.type = "ASDA" THEN Raise("NotImplementedError", "ASDA")
    ELSE Ok

\* "cheking the number of partitions compatibility"
CoreCheck(numPartitions, num_partitions) ==
    IF numPartitions = 0 /\ num_partitions > 0
    THEN Raise("ValueError", "coreCompat") ELSE Ok

\* what a call leaves behind: how it ended, the program state, and the
\* transient structures it built (clipped cells, extruded blocks, shell)
Result(how, ret, m, els, dmp, reg, eqs, clipped, extruded, shell, bounds, num_partitions, progress) ==
    [outcome |-> how.kind, err |-> how.at, ret |-> ret,
     mesh |-> m, elements |-> els, dampings |-> dmp, regions |-> reg,
     equalDofs |-> eqs, clipped |-> clipped, extruded |-> extruded,
     shell |-> shell, bounds |-> bounds, num_partitions |-> num_partitions,
     progress |-> progress]

Returned == [kind |-> "returned", at |-> "ok"]
NoReturn == [py |-> "<raised>"]

\* the local variables of _addRectangularAbsorbingLayer once its arguments
\* are checked; how tells whether the function is still running
Locals(m, els, dmp, reg, eqs, a) ==
    [how |-> Ok, a |-> a, interior |-> m, mesh |-> m,
     elements |-> els, dampings |-> dmp, regions |-> reg, equalDofs |-> eqs,
     ndof |-> IF a.type = "PML" THEN NDF_PML ELSE NDF_Rayleigh,
     mergeFlag |-> a.type # "PML",
     num_partitions |-> MaxCore(m), bounds |-> MeshBounds(m),
     CB |-> <<>>, clipped |-> <<>>, blocks |-> <<>>, extruded |-> <<>>,
     shell |-> <<>>, progress |-> <<>>]

\* "cheking the number of partitions compatibility"
CheckCores(L) ==
    [L EXCEPT !.how = CoreCheck(L.a.numPartitions, L.num_partitions)]

\* the entry of clipped cell idx[q]: its bounds, flags and region code
ClippedEntry(m, cell, CB) ==
    [cell |-> cell, box |-> CellBox(m, m.cells[cell]),
     flags |-> Flags(CellBox(m, m.cells[cell]), CB),
     absRegion |-> AbsRegion(Flags(CellBox(m, m.cells[cell]), CB))]

\* the cells outside the cube and their region codes
ClassifyCells(m, idx, CB) ==
    Seq1([q \in DOMAIN idx |-> ClippedEntry(m, idx[q], CB)])

\* the box of the centres of the cells idx of m (doubled)
CenterBoundsOf(m, idx) ==
    CenterBounds2(Seq1([q \in DOMAIN idx |-> CellBox(m, m.cells[idx[q]])]))

\* clip, cell centres, the 17 region masks
Regionize(L) ==
    IF L.how.kind # "ok" THEN L
    ELSE [L EXCEPT !.CB = CenterBoundsOf(L.interior, ClippedIdx(L.interior)),
                   !.clipped = ClassifyCells(L.interior, ClippedIdx(L.interior),
                                   CenterBoundsOf(L.interior, ClippedIdx(L.interior)))]

\* the extrusion loop over the clipped cells
Extrude(L) ==
    IF L.how.kind # "ok" THEN L
    ELSE [L EXCEPT !.blocks = Seq1([q \in DOMAIN L.clipped |->
                        Seq1(ExtrudeBlock(L.clipped[q].box, L.clipped[q].absRegion,
                                          L.interior.cells[L.clipped[q].cell],
                                          L.a.numLayers))])]

\* what the loop did for each clipped cell
Extruded(L) ==
    IF L.how.kind # "ok" THEN L
    ELSE [L EXCEPT !.extruded = Seq1([q \in DOMAIN L.clipped |->
                        [cell |-> L.clipped[q].cell,
                         absRegion |-> L.clipped[q].absRegion,
                         n_cells |-> Len(L.blocks[q])]])]

\* ExtrusionProgress with the loop reporting up to 100
ExtrusionProgress_To100(total_cells) ==
    [i \in 1..total_cells |-> <<i * 100, total_cells>>]

\* the percentages that the extrusion loop reports, one per clipped cell:
\* (i + 1) / total_cells * 80, as <<numerator, denominator>>
ExtrusionProgress(total_cells) ==
    [i \in 1..total_cells |-> <<i * 80, total_cells>>]

\* the percentages that the broadcast loop reports, one per block:
\* (i + 1) / Absorbing.n_blocks * 20 + 80
BroadcastProgress(n_blocks) ==
    [i \in 1..n_blocks |-> <<i * 20 + 80 * n_blocks, n_blocks>>]

\* "if progress_callback: progress_callback(...)" at the end of each pass of
\* the extrusion loop: a callback that raises ends the call in the first pass
ReportExtrusion(L) ==
    IF L.how.kind # "ok" \/ L.a.progress_callback = NoCallback \/ L.clipped = <<>>
    THEN L
    ELSE IF L.a.progress_callback = "raises"
    THEN [L EXCEPT !.how = Raise("CallbackError", "callback"),
                   !.blocks = <<L.blocks[1]>>, !.extruded = <<L.extruded[1]>>,
                   !.progress = <<ExtrusionProgress(Len(L.clipped))[1]>>]
    ELSE [L EXCEPT !.progress = Seq1(ExtrusionProgress(Len(L.clipped)))]

\* the same in the loop that fills the uint16 arrays of the blocks
ReportBroadcast(L) ==
    IF L.how.kind # "ok" \/ L.a.progress_callback = NoCallback THEN L
    ELSE [L EXCEPT !.progress = L.progress \o BroadcastProgress(Len(L.blocks))]

\* combine, remove the cells inside the box of the cell centres, clean
Combine(L) ==
    IF L.how.kind # "ok" THEN L
    ELSE [L EXCEPT !.shell = Seq1(RemoveInside(Flatten(L.blocks), L.CB))]

\* EleTags = unique(ElementTag)
EleTagsOf(shell) == SortedSeq({shell[q].ElementTag : q \in DOMAIN shell})

\* the outcome of the PML element loop written into the locals
WithPML(L, EleTags, pml) ==
    IF pml.err # "ok"
    THEN [L EXCEPT !.how = Raise("ValueError", pml.err), !.elements = pml.elements]
    ELSE [L EXCEPT !.elements = pml.elements,
                   !.shell = Seq1(RewriteTags(L.shell, EleTags, pml.PMLTags))]

\* if kwargs['type'] == "PML": one PML element per element tag of the shell
MakePML(L) ==
    IF L.how.kind # "ok" \/ L.a.type # "PML" THEN L
    ELSE WithPML(L, EleTagsOf(L.shell),
                 CreatePMLElements(EleTagsOf(L.shell), L.elements, <<>>, L.ndof))

\* the Core array of the shell
Partition(L) ==
    IF L.how.kind # "ok" THEN L
    ELSE [L EXCEPT !.shell = Seq1(AssignCore(L.shell, L.a.numPartitions,
                                             L.num_partitions))]

\* damping and region of a Rayleigh or PML layer, then the second test of the
\* type
Damp(L) ==
    IF L.how.kind # "ok" THEN L
    ELSE IF L.a.type \in {"Rayleigh", "PML"} /\ ~L.a.matchDamping
    THEN [L EXCEPT !.dampings = RegisterDamping(L.dampings),
                   !.regions = RegisterRegion(L.regions, Len(L.dampings) + 1),
                   !.shell = Seq1(SetRegion(L.shell, Len(L.regions) + 1))]
    ELSE IF L.a.type = "ASDA"
    THEN [L EXCEPT !.how = Raise("NotImplementedError", "ASDA")]
    ELSE L

\* mesh.merge(Absorbing, merge_points=mergeFlag, tolerance=1e-6)
Merge(L) ==
    IF L.how.kind # "ok" THEN L
    ELSE [L EXCEPT !.mesh = MergeMesh(L.interior, L.shell, L.ndof, L.mergeFlag)]

\* the outcome of the stitching written into the locals
WithStitch(L, st) ==
    IF st.err # "ok"
    THEN [L EXCEPT !.how = Raise("ValueError", st.err), !.equalDofs = st.equalDofs]
    ELSE [L EXCEPT !.equalDofs = st.equalDofs]

\* if kwargs['type'] == "PML": tie the shell to the interior
StitchInterface(L) ==
    IF L.how.kind # "ok" \/ L.a.type # "PML" THEN L
    ELSE WithStitch(L, Stitch(L.interior, L.mesh, L.equalDofs))

\* what the call leaves behind; the function ends without a return statement
ResultOf(L) ==
    IF L.how.kind # "ok"
    THEN Result(L.how, NoReturn, L.mesh, L.elements, L.dampings, L.regions,
                L.equalDofs, L.clipped, L.extruded, L.shell, L.bounds,
                L.num_partitions, L.progress)
    ELSE Result(Returned, None, L.mesh, L.elements, L.dampings, L.regions,
                L.equalDofs, L.clipped, L.extruded, L.shell, L.bounds,
                L.num_partitions, L.progress)

\* _addRectangularAbsorbingLayer after its argument checks
BuildLayer(m, els, dmp, reg, eqs, a) ==
    ResultOf(StitchInterface(Merge(Damp(Partition(MakePML(Combine(ReportBroadcast(
        ReportExtrusion(Extruded(Extrude(Regionize(CheckCores(
            Locals(m, els, dmp, reg, eqs, a))))))))))))))

\* CallResult with the type tested only after the layer has been built
CallResult_TypeCheckedLate(m, els, dmp, reg, eqs, a) ==
    LET entry == EntryCheck(m, a)
        rect  == RectCheck(m, a)
    IN  IF entry.kind # "ok"
        THEN Result(entry, NoReturn, m, els, dmp, reg, eqs, <<>>, <<>>, <<>>, <<>>, 0, <<>>)
        ELSE IF rect.kind # "ok" /\ rect.at \notin {"typeMissing", "type"}
        THEN Result(rect, NoReturn, m, els, dmp, reg, eqs, <<>>, <<>>, <<>>, <<>>, 0, <<>>)
        ELSE CHOOSE r \in
                 {IF rect.kind # "ok" /\ built.outcome = "returned"
                  THEN [built EXCEPT !.outcome = rect.kind, !.err = rect.at,
                                     !.ret = NoReturn]
                  ELSE built :
                  built \in {BuildLayer(m, els, dmp, reg, eqs,
                                [a EXCEPT !.type = IF a.type = "PML" THEN "PML"
                                                   ELSE "Rayleigh"])}} : TRUE

\* the outcome of addAbsorbingLayer(numLayers, numPartitions, partitionAlgo,
\* geometry, matchDamping=..., type=...) in program state (m, els, dmp, reg, eqs)
CallResult(m, els, dmp, reg, eqs, a) ==
    LET entry == EntryCheck(m, a)
        rect  == RectCheck(m, a)
    IN  IF entry.kind # "ok"
        THEN Result(entry, NoReturn, m, els, dmp, reg, eqs, <<>>, <<>>, <<>>, <<>>, 0, <<>>)
        ELSE IF rect.kind # "ok"
        THEN Result(rect, NoReturn, m, els, dmp, reg, eqs, <<>>, <<>>, <<>>, <<>>, 0, <<>>)
        ELSE BuildLayer(m, els, dmp, reg, eqs, a)

(* ------------------------------ export_to_tcl -------------------------- *)
NoFilename == "<no filename>"   \* filename=None

\* unique(cores): the Core values of the mesh in increasing order
CoresOf(m) == SortedSeq({m.cells[q].Core : q \in DOMAIN m.cells})

\* wroted has one column per Core value, so wroted[pid][core] is an IndexError
\* for a Core that is not below the number of Core values: the cells where the
\* node loop fails
BadCells(m) ==
    {q \in DOMAIN m.cells : m.cells[q].Core >= Len(CoresOf(m))}

\* how many cells the nodes-and-elements loop writes
CellsWritten(m) ==
    IF BadCells(m) = {} THEN Len(m.cells) ELSE SetMin(BadCells(m)) - 1

\* (i / n_cells) * 45 + 5 after each cell written, as <<numerator, denominator>>
CellProgress(n_cells, written) ==
    [i \in 1..written |-> <<45 * (i - 1) + 5 * n_cells, n_cells>>]

\* unique(Region)
RegionsOf(m) == SortedSeq({m.cells[q].Region : q \in DOMAIN m.cells})

\* (i / Regions.shape[0]) * 10 + 55 after each region written
RegionProgress(R) == [i \in 1..R |-> <<10 * (i - 1) + 55 * R, R>>]

\* region.setComponent("element", eleTags[Region == regionTag]) on the
\* registered regions that the mesh uses
SetComponents(reg, m) ==
    [t \in DOMAIN reg |->
        IF t \in Range(RegionsOf(m))
        THEN [reg[t] EXCEPT !.component =
                 SortedSeq({q \in DOMAIN m.cells : m.cells[q].Region = t})]
        ELSE reg[t]]

\* the nodes of the cells of Core core
InCore(m, core) ==
    UNION {Range(m.cells[q].conn) : q \in {c \in DOMAIN m.cells : m.cells[c].Core = core}}

\* constraint_map: master node -> constraint; a later constraint with the same
\* master takes the place of the earlier one
constraint_map(eqs) ==
    [mst \in {eqs[k].master : k \in DOMAIN eqs} |->
        eqs[SetMax({k \in DOMAIN eqs : eqs[k].master = mst})]]

\* constraint_map_rev: slave node -> master node of the last constraint that
\* has the slave
constraint_map_rev(eqs) ==
    [slv \in UNION {Range(eqs[k].slaves) : k \in DOMAIN eqs} |->
        eqs[SetMax({k \in DOMAIN eqs : slv \in Range(eqs[k].slaves)})].master]

\* active_masters of a Core: the masters in the Core and, for each slave in
\* the Core, constraint_map_rev of it
ActiveMasters(eqs, incore, rev) ==
    {eqs[k].master : k \in {j \in DOMAIN eqs : eqs[j].master \in incore}}
       \cup {rev[slv] : slv \in DOMAIN rev \cap incore}

\* in_core and active_masters of every Core of cores
CoreNodes(m, cores) == [k \in DOMAIN cores |-> InCore(m, cores[k])]
ActivePerCore(eqs, incore, rev) ==
    [k \in DOMAIN incore |-> ActiveMasters(eqs, incore[k], rev)]

\* the block of constraints written under "if {$pid == core}": the nodes of
\* the written constraints that are not in the Core (masters, then slaves),
\* then the constraint lines, by increasing master
ConstraintBlock(core, incore, active, cmap) ==
    [pid |-> core,
     masters |-> SortedSeq(active \ incore),
     slaves |-> SortedSeq(UNION {Range(cmap[a].slaves) : a \in active} \ incore),
     constraints |-> [j \in 1..Cardinality(active) |-> cmap[SortedSeq(active)[j]]]]

\* the mpConstraints section: one block per Core that has an active master
ConstraintBlocks(cores, incore, active, cmap) ==
    LET Writes(k) == active[k] # {}
        written == SelectSeq([k \in DOMAIN cores |-> k], Writes)
    IN  [j \in DOMAIN written |->
            ConstraintBlock(cores[written[j]], incore[written[j]],
                            active[written[j]], cmap)]

\* the nodes that the cells before cell q declared under the Core of cell q
\* (the row of wroted for that Core when the loop reaches cell q)
Wroted(m, q) ==
    UNION {Range(m.cells[c].conn) :
             c \in {d \in 1..(q - 1) : m.cells[d].Core = m.cells[q].Core}}

NewNodes(conn, wroted) ==
    LET NotWritten(pid) == pid \notin wroted
    IN  SelectSeq(conn, NotWritten)

\* what the loop writes for cell q: the conditional on pid, the node lines of
\* the nodes not yet written under the Core, the element line
ElementBlock(m, q) ==
    [pid |-> m.cells[q].Core,
     nodes |-> NewNodes(m.cells[q].conn, Wroted(m, q)),
     element |-> [eleTag |-> q, ElementTag |-> m.cells[q].ElementTag,
                  nodeTag |-> m.cells[q].conn]]

\* the block that the IndexError of wroted[pid][core] leaves: the opening
\* line of the conditional only
OpenBlock(m, q) ==
    [pid |-> m.cells[q].Core, nodes |-> <<>>,
     element |-> [eleTag |-> 0, ElementTag |-> 0, nodeTag |-> <<>>]]

\* the Nodes & Elements section
ElementBlocks(m) ==
    IF BadCells(m) = {} THEN [q \in DOMAIN m.cells |-> ElementBlock(m, q)]
    ELSE [q \in 1..(CellsWritten(m) + 1) |->
             IF q <= CellsWritten(m) THEN ElementBlock(m, q) ELSE OpenBlock(m, q)]

\* the two sections of the file that the model keeps
File(blocks, constraints) == [elements |-> blocks, constraints |-> constraints]
NoFile == File(<<>>, <<>>)

\* min(65 + (core_idx + 1) / len(num_cores) * 15, 80) for the Cores that
\* write a block of constraints
ConstraintProgress(active, cores) ==
    LET Writes(k) == active[k] # {}
        written == SelectSeq([k \in DOMAIN cores |-> k], Writes)
    IN  [j \in DOMAIN written |->
            IF 15 * written[j] <= 15 * Len(cores)
            THEN <<65 * Len(cores) + 15 * written[j], Len(cores)>>
            ELSE <<80, 1>>]

\* the percentages reported by a call that nothing stops
FullProgress(m, active) ==
    << <<0, 1>>, <<5, 1>> >> \o CellProgress(Len(m.cells), Len(m.cells))
       \o << <<50, 1>>, <<55, 1>> >> \o RegionProgress(Len(RegionsOf(m)))
       \o << <<65, 1>> >> \o ConstraintProgress(active, CoresOf(m))
       \o << <<100, 1>> >>

\* how an export_to_tcl call ends
Exported(outcome, err, ret, reg, progress, file) ==
    [outcome |-> outcome, err |-> err, ret |-> ret, regions |-> reg,
     progress |-> progress, file |-> file]

\* an export_to_tcl call that nothing stops
Written(m, reg, progress_callback, cores, incore, active, cmap) ==
    Exported("returned", "ok", True, Seq1(SetComponents(reg, m)),
             IF progress_callback = NoCallback THEN <<>>
             ELSE Seq1(FullProgress(m, active)),
             File(Seq1(ElementBlocks(m)),
                  Seq1(ConstraintBlocks(cores, incore, active, cmap))))

\* export_to_tcl(filename, progress_callback) on a MeshMaker made without
\* model_name and model_path
ExportResult(m, eqs, reg, filename, progress_callback) ==
    IF filename = NoFilename
    THEN Exported("ValueError", "filename", NoReturn, reg, <<>>, NoFile)
    ELSE IF m = None
    THEN Exported("ValueError", "mesh", NoReturn, reg, <<>>, NoFile)
    ELSE IF progress_callback = "raises"
    THEN Exported("CallbackError", "callback", NoReturn, reg, << <<0, 1>> >>, NoFile)
    ELSE IF BadCells(m) # {}
    THEN Exported("IndexError", "wroted", NoReturn, reg,
                  IF progress_callback = NoCallback THEN <<>>
                  ELSE << <<0, 1>>, <<5, 1>> >>
                          \o CellProgress(Len(m.cells), CellsWritten(m)),
                  File(Seq1(ElementBlocks(m)), <<>>))
    ELSE Written(m, reg, progress_callback, CoresOf(m), Seq1(CoreNodes(m, CoresOf(m))),
                 Seq1(ActivePerCore(eqs, Seq1(CoreNodes(m, CoresOf(m))),
                                    constraint_map_rev(eqs))),
                 constraint_map(eqs))

(* ------------------------------- Material ------------------------------ *)
\* dictionaries are functions on their keys
EmptyDict == [k \in {} |-> 0]
Put(d, key, value) == [k \in DOMAIN d \cup {key} |-> IF k = key THEN value ELSE d[k]]
Pop(d, key) == [k \in DOMAIN d \ {key} |-> d[k]]

\* Python values used as keys: an int, and a reference to a Material instance
PyInt(n) == [py |-> "int", v |-> n]
PyRef(id) == [py |-> "Material", v |-> id]
\* key in d, for a dictionary d whose keys are ints: an instance has the
\* identity equality and hash of object, so it equals no int
HasIntKey(d, key) == key.py = "int" /\ key.v \in DOMAIN d

UserNames == {"Concrete1", "Concrete2", "Concrete3"}

\* the class attributes after the class statement
MaterialClass ==
    [_materials |-> EmptyDict, _matTags |-> EmptyDict, _names |-> EmptyDict,
     _next_tag |-> 1, _start_tag |-> 1]

MatResult(outcome, ret, M, inst) ==
    [outcome |-> outcome, ret |-> ret, class |-> M, instances |-> inst]

\* how many keys of d sort before tag
TagRank(d, tag) == Cardinality({t \in DOMAIN d : t < tag})
\* the last key, in sorted order, under which d holds id
LastTagOf(d, id) ==
    CHOOSE t \in DOMAIN d : d[t] = id /\ \A u \in DOMAIN d : d[u] = id => u <= t

\* retag_all with the new tags counted from 1 whatever _start_tag is
retag_all_FromOne(M, inst) ==
    LET old == M._materials
        new_tag(t) == 1 + TagRank(old, t)
        held == {old[t] : t \in DOMAIN old}
    IN  MatResult("returned", None,
            [M EXCEPT
                !._materials = [n \in {new_tag(t) : t \in DOMAIN old} |->
                                  old[CHOOSE t \in DOMAIN old : new_tag(t) = n]],
                !._matTags = [id \in held |-> new_tag(LastTagOf(old, id))],
                !._next_tag = M._start_tag + Cardinality(DOMAIN old)],
            Seq1([id \in DOMAIN inst |->
                IF id \in held THEN [inst[id] EXCEPT !.tag = new_tag(LastTagOf(old, id))]
                ELSE inst[id]]))

\* retag_all: the materials sorted by their old tag get the tags _start_tag,
\* _start_tag + 1, ... ; _materials and _matTags are rebuilt, _next_tag follows
retag_all(M, inst) ==
    LET old == M._materials
        new_tag(t) == M._start_tag + TagRank(old, t)
        held == {old[t] : t \in DOMAIN old}
    IN  MatResult("returned", None,
            [M EXCEPT
                !._materials = [n \in {new_tag(t) : t \in DOMAIN old} |->
                                  old[CHOOSE t \in DOMAIN old : new_tag(t) = n]],
                !._matTags = [id \in held |-> new_tag(LastTagOf(old, id))],
                !._next_tag = M._start_tag + Cardinality(DOMAIN old)],
            Seq1([id \in DOMAIN inst |->
                IF id \in held THEN [inst[id] EXCEPT !.tag = new_tag(LastTagOf(old, id))]
                ELSE inst[id]]))

\* Material.__init__ without the check of the user name
NewMaterialResult_NoNameCheck(M, inst, user_name) ==
    MatResult("returned", PyRef(Len(inst) + 1),
              [M EXCEPT !._next_tag = M._next_tag + 1,
                        !._materials = Put(@, M._next_tag, Len(inst) + 1),
                        !._matTags = Put(@, Len(inst) + 1, M._next_tag),
                        !._names = Put(@, user_name, Len(inst) + 1)],
              Append(inst, [tag |-> M._next_tag, user_name |-> user_name]))

\* Material.__init__: a registered user name raises before anything is
\* assigned; otherwise the instance takes _next_tag and enters the three maps
NewMaterialResult(M, inst, user_name) ==
    IF user_name \in DOMAIN M._names
    THEN MatResult("ValueError", NoReturn, M, inst)
    ELSE MatResult("returned", PyRef(Len(inst) + 1),
              [M EXCEPT !._next_tag = M._next_tag + 1,
                        !._materials = Put(@, M._next_tag, Len(inst) + 1),
                        !._matTags = Put(@, Len(inst) + 1, M._next_tag),
                        !._names = Put(@, user_name, Len(inst) + 1)],
              Append(inst, [tag |-> M._next_tag, user_name |-> user_name]))

\* the three pops of delete_material, then retag_all
Removed(M, inst, tag, id) ==
    retag_all([M EXCEPT !._names = Pop(@, inst[id].user_name),
                        !._matTags = Pop(@, id),
                        !._materials = Pop(@, tag)], inst)

\* delete_material: an unknown tag is ignored
DeleteResult(M, inst, tag) ==
    IF tag \in DOMAIN M._materials
    THEN IF inst[M._materials[tag]].user_name \notin DOMAIN M._names
            \/ M._materials[tag] \notin DOMAIN M._matTags
         THEN MatResult("KeyError", NoReturn, M, inst)
         ELSE Removed(M, inst, tag, M._materials[tag])
    ELSE MatResult("returned", None, M, inst)

\* clear_all: the three maps are emptied, tags start again at _start_tag
ClearAllResult(M, inst) ==
    MatResult("returned", None,
              [M EXCEPT !._materials = EmptyDict, !._matTags = EmptyDict,
                        !._names = EmptyDict, !._next_tag = M._start_tag],
              inst)

\* set_tag_start: a start number below 1 raises; otherwise the registered
\* materials are retagged from the new start
SetTagStartResult(M, inst, start_number) ==
    IF start_number < 1
    THEN MatResult("ValueError", NoReturn, M, inst)
    ELSE retag_all([M EXCEPT !._start_tag = start_number,
                             !._next_tag = start_number], inst)

\* get_material_by_name, the definition in effect (the second one of the
\* class body): _names[name] is the instance, which is then used as a key of
\* _materials, whose keys are the tags
GetByNameResult(M, inst, name) ==
    IF name \notin DOMAIN M._names
    THEN MatResult("KeyError", NoReturn, M, inst)
    ELSE IF HasIntKey(M._materials, PyRef(M._names[name]))
         THEN MatResult("returned", PyRef(M._materials[PyRef(M._names[name]).v]), M, inst)
         ELSE MatResult("KeyError", NoReturn, M, inst)

(* ----------------------------- SPConstraint ---------------------------- *)
\* A dict is the sequence of its items [key, value] in insertion order.
Keys(d) == {d[i].key : i \in DOMAIN d}
Values(d) == [i \in DOMAIN d |-> d[i].value]

\* d[key] = value: the value of an existing key is replaced where it is, a new
\* key goes to the end
SetItem(d, key, value) ==
    IF key \in Keys(d)
    THEN [i \in DOMAIN d |-> IF d[i].key = key THEN [key |-> key, value |-> value]
                             ELSE d[i]]
    ELSE Append(d, [key |-> key, value |-> value])

\* del d[key]
DelItem(d, key) ==
    LET Other(item) == item.key # key
    IN  SelectSeq(d, Other)

\* sorted(d.items()): the items by increasing key
SortedItems(d) ==
    LET keys == SortedSeq(Keys(d))
    IN  [i \in DOMAIN keys |-> CHOOSE item \in Range(d) : item.key = keys[i]]

\* the class after the class statement; objects are the constraints created
\* so far, by identity 1..Len, with their type and tag attribute
SPConstraintClass == [_constraints |-> <<>>, objects |-> <<>>]

SPTypes == {"fix", "fixX", "fixY", "fixZ"}

\* len(cls._constraints) + 1
_next_tag(C) == Len(C._constraints) + 1

\* SPConstraint.__init__ through the constructor of one of the subclasses
NewSPConstraint(C, type) ==
    [_constraints |-> SetItem(C._constraints, _next_tag(C), Len(C.objects) + 1),
     objects |-> Append(C.objects, [type |-> type, tag |-> _next_tag(C)])]

\* the loop "for new_tag, (_, constraint) in enumerate(constraints, 1)" on the
\* cleared dict
Renumbered_KeepsTags(objects, constraints) ==
    [_constraints |-> constraints, objects |-> objects]

Renumbered(objects, constraints) ==
    [_constraints |-> [i \in DOMAIN constraints |->
                          [key |-> i, value |-> constraints[i].value]],
     objects |-> [id \in DOMAIN objects |->
                    IF \E i \in DOMAIN constraints : constraints[i].value = id
                    THEN [objects[id] EXCEPT !.tag =
                            CHOOSE i \in DOMAIN constraints : constraints[i].value = id]
                    ELSE objects[id]]]

\* SPConstraint.remove_constraint(tag)
RemoveSPConstraint(C, tag) ==
    IF tag \in Keys(C._constraints)
    THEN Renumbered(C.objects, SortedItems(DelItem(C._constraints, tag)))
    ELSE C

(* ------------------------------ the system ----------------------------- *)
Idle ==
    [numLayers |-> 0, numPartitions |-> 0, partitionAlgo |-> "", geometry |-> "",
     type |-> NoType, matchDamping |-> FALSE,
     outcome |-> "idle", err |-> "ok", ret |-> NoReturn,
     clipped |-> <<>>, extruded |-> <<>>, shell |-> <<>>, bounds |-> <<>>,
     num_partitions |-> 0, progress_callback |-> NoCallback, progress |-> <<>>]

ExportIdle ==
    [filename |-> NoFilename, progress_callback |-> NoCallback,
     outcome |-> "idle", err |-> "ok", ret |-> NoReturn, progress |-> <<>>,
     file |-> NoFile]

MatIdle ==
    [op |-> "", name |-> "", tag |-> 0, outcome |-> "idle", ret |-> NoReturn]

\* no step is being looked at alone
NoProbe ==
    [fn |-> "", src |-> <<>>, absregion |-> 0, cells |-> <<>>, n |-> 0,
     outcome |-> "idle", PMLTags |-> <<>>, out |-> <<>>]

SystemInit ==
    /\ Material = MaterialClass
    /\ instances = <<>>
    /\ matcall = MatIdle
    /\ AssembeledMesh = None
    /\ elements = <<>>
    /\ dampings = <<>>
    /\ regions = <<>>
    /\ equalDofs = <<>>
    /\ call = Idle
    /\ calls = 0
    /\ export = ExportIdle
    /\ SPConstraint = SPConstraintClass

Init ==
    /\ SystemInit
    /\ probe = NoProbe

\* the user registers an element (a brick with its material) before assembling
CreateElement(element_type, mat) ==
    /\ call.outcome = "idle"
    /\ AssembeledMesh = None
    /\ Len(elements) < MaxElements
    /\ export.outcome = "idle"
    /\ elements' = RegisterElement(elements, element_type, 3, mat)
    /\ UNCHANGED <<AssembeledMesh, dampings, regions, equalDofs, call, calls, export>>
    /\ UNCHANGED materialVars
    /\ UNCHANGED <<probe, SPConstraint>>

\* the assembler builds the assembled mesh from the mesh parts, which use the
\* registered elements
Assemble(nx, ny, nz, cp, coarse) ==
    /\ call.outcome = "idle"
    /\ AssembeledMesh = None
    /\ Len(elements) >= 1
    /\ export.outcome = "idle"
    /\ AssembeledMesh' = AssembledMeshOf(nx, ny, nz, Len(elements), cp, coarse)
    /\ UNCHANGED <<elements, dampings, regions, equalDofs, call, calls, export>>
    /\ UNCHANGED materialVars
    /\ UNCHANGED <<probe, SPConstraint>>

\* the same with the cells of a uniform mesh put in the regions r, r+1, ...
AssembleInRegion(nx, ny, nz, cp, r) ==
    /\ call.outcome = "idle"
    /\ export.outcome = "idle"
    /\ AssembeledMesh = None
    /\ Len(elements) >= 1
    /\ AssembeledMesh' = WithRegion(AssembledMeshOf(nx, ny, nz, Len(elements), cp, FALSE), r)
    /\ UNCHANGED <<elements, dampings, regions, equalDofs, call, calls, export>>
    /\ UNCHANGED materialVars
    /\ UNCHANGED <<probe, SPConstraint>>

\* the caller has seen how the last call ended and goes on
CallerContinues ==
    /\ call.outcome # "idle" \/ export.outcome # "idle"
    /\ call' = Idle
    /\ export' = ExportIdle
    /\ UNCHANGED <<AssembeledMesh, elements, dampings, regions, equalDofs, calls>>
    /\ UNCHANGED materialVars
    /\ UNCHANGED <<probe, SPConstraint>>

\* a call of addAbsorbingLayer, whichever call of the session it is
LayerCall(numLayers, numPartitions, partitionAlgo, geometry, type, matchDamping, progress_callback) ==
    /\ call.outcome = "idle"
    /\ export.outcome = "idle"
    /\ \E R \in {CallResult(AssembeledMesh, elements, dampings, regions, equalDofs,
                    [numLayers |-> numLayers, numPartitions |-> numPartitions,
                     partitionAlgo |-> partitionAlgo, geometry |-> geometry,
                     type |-> type, matchDamping |-> matchDamping,
                     progress_callback |-> progress_callback])} :
           /\ AssembeledMesh' = R.mesh
           /\ elements' = R.elements
           /\ dampings' = R.dampings
           /\ regions' = R.regions
           /\ equalDofs' = R.equalDofs
           /\ call' = [numLayers |-> numLayers, numPartitions |-> numPartitions,
                       partitionAlgo |-> partitionAlgo, geometry |-> geometry,
                       type |-> type, matchDamping |-> matchDamping,
                       outcome |-> R.outcome, err |-> R.err, ret |-> R.ret,
                       clipped |-> R.clipped, extruded |-> R.extruded,
                       shell |-> R.shell, bounds |-> R.bounds,
                       num_partitions |-> R.num_partitions,
                       progress_callback |-> progress_callback,
                       progress |-> R.progress]
           /\ calls' = calls + 1
           /\ UNCHANGED export
    /\ UNCHANGED materialVars
    /\ UNCHANGED <<probe, SPConstraint>>

\* the first calls of a session
addAbsorbingLayer(numLayers, numPartitions, partitionAlgo, geometry, type, matchDamping, progress_callback) ==
    /\ calls < MaxCalls
    /\ LayerCall(numLayers, numPartitions, partitionAlgo, geometry, type, matchDamping,
                 progress_callback)

\* one more call, on the mesh that the first calls have left
addAbsorbingLayerAgain(numLayers, numPartitions, type, matchDamping) ==
    /\ calls >= MaxCalls /\ calls < MaxCalls + 1
    /\ LayerCall(numLayers, numPartitions, "kd-tree", "Rectangular", type, matchDamping,
                 NoCallback)

export_to_tcl(filename, progress_callback) ==
    /\ export.outcome = "idle"
    /\ \E R \in {ExportResult(AssembeledMesh, equalDofs, regions, filename,
                              progress_callback)} :
           /\ regions' = R.regions
           /\ export' = [filename |-> filename, progress_callback |-> progress_callback,
                         outcome |-> R.outcome, err |-> R.err, ret |-> R.ret,
                         progress |-> R.progress, file |-> R.file]
    /\ UNCHANGED <<AssembeledMesh, elements, dampings, equalDofs, call, calls>>
    /\ UNCHANGED materialVars
    /\ UNCHANGED <<probe, SPConstraint>>

Geometries == {"Rectangular", "Cylindrical", "Spherical"}
Callbacks == {NoCallback, "returns", "raises"}
Algorithms == {"kd-tree", "metis", "scotch"}
Types == {"PML", "Rayleigh", "ASDA", "Lysmer", NoType}

\* Every argument combination, valid or not, on a column of cells
Next ==
    \/ \E mat \in {ElasticIsotropic, J2Plasticity} : CreateElement("stdBrick", mat)
    \/ \E nz \in 1..MaxN, cp \in 0..1 : Assemble(1, 1, nz, cp, FALSE)
    \/ \E numLayers \in 0..MaxLayers, numPartitions \in (-1)..MaxParts,
          partitionAlgo \in Algorithms, geometry \in Geometries, type \in Types,
          matchDamping \in BOOLEAN :
          addAbsorbingLayer(numLayers, numPartitions, partitionAlgo, geometry, type,
                            matchDamping, NoCallback)
    \/ CallerContinues

Spec == Init /\ [][Next]_vars

\* The implemented combinations (kd-tree, Rectangular, PML or Rayleigh) on
\* every mesh
NextMesh ==
    \/ \E mat \in {ElasticIsotropic, J2Plasticity} : CreateElement("stdBrick", mat)
    \/ \E nx \in 1..MaxN, ny \in 1..MaxN, nz \in 1..MaxN, cp \in 0..1,
          coarse \in BOOLEAN : Assemble(nx, ny, nz, cp, coarse)
    \/ \E numLayers \in 1..MaxLayers, numPartitions \in 0..MaxParts,
          type \in {"PML", "Rayleigh"}, matchDamping \in BOOLEAN :
          addAbsorbingLayer(numLayers, numPartitions, "kd-tree", "Rectangular", type,
                            matchDamping, NoCallback)
    \/ CallerContinues

SpecMesh == Init /\ [][NextMesh]_vars

\* The implemented combinations with and without a progress callback, and the
\* export, on uniform meshes
NextUse ==
    \/ \E mat \in {ElasticIsotropic, J2Plasticity} : CreateElement("stdBrick", mat)
    \/ \E nx \in 1..MaxN, nz \in 1..MaxN, cp \in 0..1, r \in 0..1 :
          AssembleInRegion(nx, nx, nz, cp, r)
    \/ \E numLayers \in 1..MaxLayers, numPartitions \in 0..MaxParts,
          type \in {"PML", "Rayleigh"}, matchDamping \in BOOLEAN,
          progress_callback \in Callbacks :
          addAbsorbingLayer(numLayers, numPartitions, "kd-tree", "Rectangular", type,
                            matchDamping, progress_callback)
    \/ \E filename \in {NoFilename, "model.tcl"}, progress_callback \in Callbacks :
          export_to_tcl(filename, progress_callback)
    \/ CallerContinues

SpecUse == Init /\ [][NextUse]_vars

(* the calls on the Material class *)
meshVars == <<AssembeledMesh, elements, dampings, regions, equalDofs, call, calls, export>>

MatCall(op, name, tag, R) ==
    /\ Material' = R.class
    /\ instances' = R.instances
    /\ matcall' = [op |-> op, name |-> name, tag |-> tag, outcome |-> R.outcome,
                   ret |-> R.ret]
    /\ UNCHANGED meshVars
    /\ UNCHANGED <<probe, SPConstraint>>

\* a concrete material is constructed: Material.__init__(..., user_name)
NewMaterial(user_name) ==
    /\ Len(instances) < MaxMaterials
    /\ MatCall("__init__", user_name, 0, NewMaterialResult(Material, instances, user_name))

delete_material(tag) ==
    MatCall("delete_material", "", tag, DeleteResult(Material, instances, tag))

clear_all ==
    MatCall("clear_all", "", 0, ClearAllResult(Material, instances))

set_tag_start(start_number) ==
    MatCall("set_tag_start", "", start_number,
            SetTagStartResult(Material, instances, start_number))

get_material_by_name(name) ==
    MatCall("get_material_by_name", name, 0, GetByNameResult(Material, instances, name))

\* Every call on the Material class, with known and unknown names and tags
NextMaterial ==
    \/ \E user_name \in UserNames : NewMaterial(user_name)
    \/ \E tag \in 1..(MaxStart + MaxMaterials) : delete_material(tag)
    \/ clear_all
    \/ \E start_number \in 0..MaxStart : set_tag_start(start_number)
    \/ \E name \in UserNames : get_material_by_name(name)

SpecMaterial == Init /\ [][NextMaterial]_vars

(* the calls on SPConstraintManager *)
\* create_constraint(constraint_type, *args); a type that is none of the four
\* raises ValueError and leaves the class as it is
create_constraint(constraint_type) ==
    /\ Len(SPConstraint.objects) < MaxSP
    /\ SPConstraint' = IF constraint_type \in SPTypes
                       THEN NewSPConstraint(SPConstraint, constraint_type)
                       ELSE SPConstraint
    /\ UNCHANGED <<meshVars, materialVars, probe>>

remove_constraint(tag) ==
    /\ SPConstraint' = RemoveSPConstraint(SPConstraint, tag)
    /\ UNCHANGED <<meshVars, materialVars, probe>>

NextSP ==
    \/ \E constraint_type \in SPTypes \cup {"fixW"} : create_constraint(constraint_type)
    \/ \E tag \in 0..(MaxSP + 1) : remove_constraint(tag)

SpecSP == Init /\ [][NextSP]_vars

\* Elements of every kind at the boundary, and a layer added to a mesh that
\* already has one
NextRepeat ==
    \/ \E element_type \in {"stdBrick", "PML3D"}, mat \in {ElasticIsotropic, J2Plasticity} :
          CreateElement(element_type, mat)
    \/ Assemble(MaxN, MaxN, 1, 0, FALSE)
    \/ \E numPartitions \in {0, MaxParts}, matchDamping \in BOOLEAN :
          addAbsorbingLayer(1, numPartitions, "kd-tree", "Rectangular", "PML",
                            matchDamping, NoCallback)
    \/ \E numPartitions \in {0, MaxParts}, matchDamping \in BOOLEAN :
          addAbsorbingLayerAgain(1, numPartitions, "PML", matchDamping)
    \/ CallerContinues

SpecRepeat == Init /\ [][NextRepeat]_vars


(* the tag arrays of the layer, on tags and registries of any size *)
systemVars == <<AssembeledMesh, elements, dampings, regions, equalDofs, call, calls, export,
                Material, instances, matcall, SPConstraint>>

\* tag values around the range of uint16
TagValues == {0, 1, Uint16Mod - 1, Uint16Mod, Uint16Mod + 1}
\* how many elements the registry holds before the PML elements are created
RegistrySizes == {MaxOldTag, MaxOldTag + 1, Uint16Mod - 2, Uint16Mod - 1, Uint16Mod + 1}

\* a registry of n stdBrick elements of an ElasticIsotropic material
ElementsOf(n) ==
    [t \in 1..n |-> [element_type |-> "stdBrick", ndof |-> 3, material |-> ElasticIsotropic]]

UnitBox == [lo |-> <<0, 0, 0>>, hi |-> <<1, 1, 1>>]

InitTags ==
    /\ SystemInit
    /\ \/ \E mt \in TagValues, et \in TagValues, rt \in TagValues, absregion \in {1, NumRegions} :
            probe = [NoProbe EXCEPT !.fn = "extrude", !.absregion = absregion,
                        !.src = [MaterialTag |-> mt, ElementTag |-> et, Region |-> rt],
                        !.outcome = "pending"]
       \/ \E len \in 1..MaxShellCells, n \in RegistrySizes :
            \E tags \in [1..len -> 1..MaxOldTag] :
               probe = [NoProbe EXCEPT !.fn = "retag", !.n = n, !.outcome = "pending",
                           !.cells = [q \in 1..len |-> [ElementTag |-> tags[q]]]]

\* one pass of the extrusion loop and of the broadcast loop on a unit cell
\* with the tags probe.src
ExtrudeCell ==
    /\ probe.fn = "extrude" /\ probe.outcome = "pending"
    /\ probe' = [probe EXCEPT !.outcome = "returned",
                     !.out = Seq1(ExtrudeBlock(UnitBox, probe.absregion, probe.src, 1))]
    /\ UNCHANGED systemVars

\* the PML element loop and the rewrite of ElementTag on the cells probe.cells
\* with probe.n elements registered. ElementTag[mask] = PMLTags[tag] stores a
\* Python int in a uint16 array: an int above the range is wrapped by one
\* numpy and refused with OverflowError by another
RetagShell(numpy) ==
    /\ probe.fn = "retag" /\ probe.outcome = "pending"
    /\ \E pml \in {CreatePMLElements(EleTagsOf(probe.cells), ElementsOf(probe.n),
                                       <<>>, NDF_PML)} :
          IF numpy = "raises"
             /\ \E t \in DOMAIN pml.PMLTags : pml.PMLTags[t] >= Uint16Mod
          THEN probe' = [probe EXCEPT !.outcome = "OverflowError",
                            !.PMLTags = pml.PMLTags]
          ELSE probe' = [probe EXCEPT !.outcome = "returned",
                            !.PMLTags = pml.PMLTags,
                            !.out = Seq1(RewriteTags(probe.cells, EleTagsOf(probe.cells),
                                                     pml.PMLTags))]
    /\ UNCHANGED systemVars

NextTags ==
    \/ ExtrudeCell
    \/ \E numpy \in {"wraps", "raises"} : RetagShell(numpy)

SpecTags == InitTags /\ [][NextTags]_vars

(* export_to_tcl on meshes with any Core values and on any constraint
   collection: a row of MaxN cells along x, every cell with a Core of
   0..MaxParts, and up to MaxConstraints equalDOF constraints between four
   nodes of the two ends of the row *)
WithCores(m, cores) ==
    [m EXCEPT !.cells = Seq1([q \in DOMAIN m.cells |->
                                [m.cells[q] EXCEPT !.Core = cores[q]]])]

ExportMeshes ==
    {WithCores(AssembledMeshOf(MaxN, 1, 1, 1, 0, FALSE), cores) :
        cores \in [1..MaxN -> 0..MaxParts]}

\* two nodes of the first cell only, two nodes of the last cell only
EndNodes == {1, MaxN + 2, MaxN + 1, 2 * MaxN + 2}

EqualDOFs ==
    {[master |-> mst, slaves |-> <<slv>>, dofs |-> <<1, 2, 3>>] :
        mst \in EndNodes, slv \in EndNodes} \ 
    {[master |-> n, slaves |-> <<n>>, dofs |-> <<1, 2, 3>>] : n \in EndNodes}

ConstraintCollections ==
    UNION {[1..n -> EqualDOFs] : n \in 0..MaxConstraints}

InitExport ==
    /\ Material = MaterialClass
    /\ instances = <<>>
    /\ matcall = MatIdle
    /\ AssembeledMesh \in ExportMeshes
    /\ elements = ElementsOf(1)
    /\ dampings = <<>>
    /\ regions = <<>>
    /\ equalDofs \in ConstraintCollections
    /\ call = Idle
    /\ calls = 0
    /\ export = ExportIdle
    /\ probe = NoProbe
    /\ SPConstraint = SPConstraintClass

NextExport ==
    \/ \E filename \in {NoFilename, "model.tcl"}, progress_callback \in Callbacks :
          export_to_tcl(filename, progress_callback)
    \/ CallerContinues

SpecExport == InitExport /\ [][NextExport]_vars

(* ============================== properties ============================= *)
Ended == call.outcome # "idle"
Raised == call.outcome \in {"ValueError", "NotImplementedError"}

ListedGeometries == {"Rectangular", "Cylindrical"}
ListedAlgorithms == {"kd-tree", "metis"}
ListedTypes == {"PML", "Rayleigh", "ASDA"}

\* the checks that the claims call precondition/validation errors
ValidationErrs == {"mesh", "numLayers", "numPartitions", "geometry", "partitionAlgo",
                   "typeMissing", "type", "coreCompat"}
\* the checks made in the middle of the work
DomainErrs == {"eleType", "material", "distance", "ndf"}

\* a failing call never turns no mesh into a mesh, so this is the mesh the call saw
MeshMissing == AssembeledMesh = None
BadBasics ==
    \/ MeshMissing \/ call.numLayers < 1 \/ call.numPartitions < 0
    \/ call.geometry \notin ListedGeometries
    \/ call.partitionAlgo \notin ListedAlgorithms

IsPrefix(s, t) == Len(s) <= Len(t) /\ \A i \in DOMAIN s : t[i] = s[i]

(* ---------------------------------- C1 --------------------------------- *)
\* C1: a step in which addAbsorbingLayer raises a validation error (mesh not
\* assembled, numLayers < 1, numPartitions < 0, unknown geometry, algorithm or
\* type, missing type, numPartitions = 0 on a partitioned mesh) leaves the
\* assembled mesh, the element, damping and region registries and the equal-DOF
\* constraints as they were, and has extruded no cell.
C1_ValidationErrorChangesNothing ==
    [][(call'.outcome = "ValueError" /\ call'.err \in ValidationErrs)
        => /\ UNCHANGED <<AssembeledMesh, elements, dampings, regions, equalDofs>>
           /\ call'.extruded = <<>> /\ call'.shell = <<>>]_vars

\* the last check, which needs the mesh, has failed on an assembled mesh
C1_Witness ==
    /\ call.outcome = "ValueError" /\ call.err = "coreCompat"
    /\ AssembeledMesh # None /\ call.numPartitions = 0 /\ call.num_partitions > 0

(* ---------------------------------- C2 --------------------------------- *)
\* C2 as written: a call with the mesh missing, numLayers < 1, numPartitions < 0
\* or a geometry, algorithm or type string outside the listed values raises
\* ValueError.
C2_AsWritten ==
    (Ended /\ (BadBasics \/ call.type \notin ListedTypes))
        => call.outcome = "ValueError"

\* C2, amended: the mesh, numLayers, numPartitions, geometry and algorithm
\* checks raise ValueError whatever else is passed; an unlisted or missing
\* type raises ValueError when partitionAlgo is "kd-tree" and geometry is
\* "Rectangular", and NotImplementedError when metis or Cylindrical was asked
\* for, because those are reported first; the call never returns normally.
C2_ValidationErrorKind ==
    /\ (Ended /\ BadBasics) => call.outcome = "ValueError"
    /\ (Ended /\ ~BadBasics /\ call.type \notin ListedTypes)
          => IF call.partitionAlgo = "kd-tree" /\ call.geometry = "Rectangular"
             THEN call.outcome = "ValueError"
             ELSE call.outcome = "NotImplementedError"

C2_Witness ==
    /\ ~MeshMissing /\ call.numLayers >= 1 /\ call.numPartitions >= 0
    /\ call.partitionAlgo = "kd-tree" /\ call.geometry = "Rectangular"
    /\ call.type = "Lysmer" /\ call.outcome = "ValueError" /\ call.err = "type"

(* ---------------------------------- C3 --------------------------------- *)
\* C3 as written: every call with type "ASDA" raises NotImplementedError
\* whatever the other arguments are, and extrudes nothing.
C3_AsWritten ==
    (Ended /\ call.type = "ASDA")
        => call.outcome = "NotImplementedError" /\ call.extruded = <<>>

\* C3, amended: a call with type "ASDA" always raises and never extrudes a
\* cell; it raises NotImplementedError when the mesh is assembled,
\* numLayers >= 1, numPartitions >= 0 and the geometry and algorithm strings
\* are listed, and ValueError otherwise.
C3_ASDANeverExtrudes ==
    (Ended /\ call.type = "ASDA")
        => /\ Raised
           /\ call.extruded = <<>> /\ call.shell = <<>>
           /\ call.outcome = (IF BadBasics THEN "ValueError" ELSE "NotImplementedError")

C3_Witness ==
    /\ call.type = "ASDA" /\ ~BadBasics
    /\ call.partitionAlgo = "kd-tree" /\ call.geometry = "Rectangular"
    /\ call.outcome = "NotImplementedError" /\ call.err = "ASDA"

(* ---------------------------------- C4 --------------------------------- *)
\* C4 as written: with an assembled mesh, numLayers >= 1, numPartitions >= 0 and
\* listed geometry and type strings, partitionAlgo "metis" or geometry
\* "Cylindrical" raises NotImplementedError.
C4_AsWritten ==
    (/\ Ended /\ ~MeshMissing /\ call.numLayers >= 1 /\ call.numPartitions >= 0
     /\ call.geometry \in ListedGeometries /\ call.type \in ListedTypes
     /\ (call.partitionAlgo = "metis" \/ call.geometry = "Cylindrical"))
        => call.outcome = "NotImplementedError"

\* C4, amended: with an assembled mesh, numLayers >= 1, numPartitions >= 0 and
\* listed geometry, partition-algorithm and type strings, a step that calls
\* with partitionAlgo "metis" or geometry "Cylindrical" raises
\* NotImplementedError, builds no shell (no fall-back to kd-tree or to the
\* rectangular geometry) and leaves the assembled mesh as it was.
C4_UnimplementedRaises ==
    [][(/\ call'.outcome # "idle" /\ AssembeledMesh # None
        /\ call'.numLayers >= 1 /\ call'.numPartitions >= 0
        /\ call'.geometry \in ListedGeometries
        /\ call'.partitionAlgo \in ListedAlgorithms
        /\ call'.type \in ListedTypes
        /\ (call'.partitionAlgo = "metis" \/ call'.geometry = "Cylindrical"))
        => /\ call'.outcome = "NotImplementedError"
           /\ call'.err \in {"metis", "Cylindrical"}
           /\ call'.extruded = <<>> /\ call'.shell = <<>>
           /\ AssembeledMesh' = AssembeledMesh]_vars

C4_Witness ==
    /\ ~MeshMissing /\ call.numLayers >= 1 /\ call.numPartitions >= 0
    /\ call.geometry = "Cylindrical" /\ call.partitionAlgo = "kd-tree"
    /\ call.type = "Rayleigh"
    /\ call.outcome = "NotImplementedError" /\ call.err = "Cylindrical"

(* ---------------------------------- C5 --------------------------------- *)
\* C5 as written: a step in which the call raises leaves the assembled mesh,
\* the element, damping and region registries and the constraints as before.
C5_AsWritten ==
    [][call'.outcome \in {"ValueError", "NotImplementedError"}
        => UNCHANGED <<AssembeledMesh, elements, dampings, regions, equalDofs>>]_vars

\* C5, amended: a call either completes (the mesh is replaced by the interior
\* cells plus the shell cells, every PML shell cell refers to a PML3D element,
\* the damping and region are created unless matchDamping, one equal-DOF
\* constraint is created per interface point for PML) or raises.  A validation
\* or unimplemented-feature error leaves everything as before.  A failure of
\* the PML element/material check leaves the mesh, dampings, regions and
\* constraints as before but keeps the PML3D elements created for the earlier
\* element tags.  A failure of the distance or ndf check comes after the mesh
\* was replaced by the merged mesh and after the elements, damping and region
\* were created, and nothing is rolled back.
C5_CompletesOrDocumentedPartialState ==
    [][/\ call'.outcome = "returned"
          => /\ AssembeledMesh # None /\ call'.shell # <<>>
             /\ Len(AssembeledMesh'.cells) = Len(AssembeledMesh.cells) + Len(call'.shell)
             /\ call'.type = "PML"
                   => /\ \A q \in DOMAIN call'.shell :
                            /\ call'.shell[q].ElementTag \in DOMAIN elements'
                            /\ elements'[call'.shell[q].ElementTag].element_type = "PML3D"
                      /\ Len(equalDofs') = Len(equalDofs) + Len(InterfaceIdx(AssembeledMesh))
             /\ call'.type # "PML" => UNCHANGED <<elements, equalDofs>>
             /\ IF call'.matchDamping THEN UNCHANGED <<dampings, regions>>
                ELSE /\ Len(dampings') = Len(dampings) + 1
                     /\ Len(regions') = Len(regions) + 1
       /\ (call'.outcome \in {"ValueError", "NotImplementedError"}
           /\ call'.err \notin DomainErrs)
          => UNCHANGED <<AssembeledMesh, elements, dampings, regions, equalDofs>>
       /\ call'.err \in {"eleType", "material"}
          => /\ call'.outcome = "ValueError"
             /\ UNCHANGED <<AssembeledMesh, dampings, regions, equalDofs>>
             /\ IsPrefix(elements, elements')
             /\ \A i \in (DOMAIN elements') \ (DOMAIN elements) :
                    elements'[i].element_type = "PML3D"
       /\ call'.err \in {"distance", "ndf"}
          => /\ call'.outcome = "ValueError" /\ call'.type = "PML"
             /\ Len(AssembeledMesh'.cells) = Len(AssembeledMesh.cells) + Len(call'.shell)
             /\ call'.shell # <<>>
             /\ IsPrefix(elements, elements') /\ Len(elements') > Len(elements)
             /\ IsPrefix(equalDofs, equalDofs')
             /\ IF call'.matchDamping THEN UNCHANGED <<dampings, regions>>
                ELSE /\ Len(dampings') = Len(dampings) + 1
                     /\ Len(regions') = Len(regions) + 1]_vars

\* the distance check has failed, and the assembled mesh holds the shell
C5_Witness ==
    /\ call.outcome = "ValueError" /\ call.err = "distance"
    /\ call.shell # <<>>
    /\ \E q \in DOMAIN AssembeledMesh.cells : AssembeledMesh.cells[q].AbsorbingRegion # 0

(* ---------------------------------- C6 --------------------------------- *)
\* C6 as written: a call that completes without raising returns True.
C6_AsWritten == call.outcome = "returned" => call.ret = True

(* ---------------------------------- C7 --------------------------------- *)
FlagSets == [left : BOOLEAN, right : BOOLEAN, front : BOOLEAN, back : BOOLEAN,
             bottom : BOOLEAN]
AnyFlag(f) == f.left \/ f.right \/ f.front \/ f.back \/ f.bottom
LeftFrontBottom == [left |-> TRUE, right |-> FALSE, front |-> TRUE, back |-> FALSE,
                    bottom |-> TRUE]

\* code c is the right code for the flags f
RightCode(f, c) ==
    /\ c \in 0..17
    /\ c = 0 <=> ~AnyFlag(f)
    /\ c > 0 => RegionMask(c, f)
    /\ (\E r \in 14..17 : RegionMask(r, f)) => c \in 14..17
    /\ (\E r \in 6..13 : RegionMask(r, f)) => c \in 6..17
    /\ f = LeftFrontBottom => c = 14

\* C7: the region code is a function of the five face flags; with a flag set
\* it is one code of 1..17 whose mask matches, a matching three-face entry wins
\* over every two-face entry and a two-face entry over every single-face entry,
\* left+front+bottom alone gives 14, and no flag gives 0; every cell that a
\* call classified carries the code of its flags.
C7_RegionCodeByPrecedence ==
    /\ \A f \in FlagSets : RightCode(f, AbsRegion(f))
    /\ \A q \in DOMAIN call.clipped :
          RightCode(call.clipped[q].flags, call.clipped[q].absRegion)

C7_Witness ==
    \E q \in DOMAIN call.clipped :
        /\ call.clipped[q].flags = LeftFrontBottom
        /\ call.clipped[q].absRegion = 14

(* ---------------------------------- C8 --------------------------------- *)
\* C8 as written: no cell of region code 0 is extruded, and no shell cell
\* carries AbsorbingRegion 0.
C8_AsWritten ==
    /\ \A q \in DOMAIN call.extruded : call.extruded[q].absRegion # 0
    /\ \A q \in DOMAIN call.shell : call.shell[q].AbsorbingRegion # 0

(* ---------------------------------- C9 --------------------------------- *)
\* the centroid of cell c lies in the box B = <<xmin, xmax, ymin, ymax, zmin, zmax>>
CentroidIn(c, B) ==
    /\ 2 * B[1] <= c.lo[1] + c.hi[1] /\ c.lo[1] + c.hi[1] <= 2 * B[2]
    /\ 2 * B[3] <= c.lo[2] + c.hi[2] /\ c.lo[2] + c.hi[2] <= 2 * B[4]
    /\ 2 * B[5] <= c.lo[3] + c.hi[3] /\ c.lo[3] + c.hi[3] <= 2 * B[6]

RECURSIVE TotalCells(_)
TotalCells(ex) == IF ex = <<>> THEN 0 ELSE Head(ex).n_cells + TotalCells(Tail(ex))

\* C9: after the removal step no shell cell has its centroid in the bounding
\* box of the original assembled mesh, and no shell cell is the copy of a
\* source cell.
C9_NoShellCellInside ==
    \A q \in DOMAIN call.shell :
        /\ ~CentroidIn(call.shell[q], call.bounds)
        /\ \A k \in DOMAIN call.clipped :
              [lo |-> call.shell[q].lo, hi |-> call.shell[q].hi] # call.clipped[k].box

\* two layers were extruded and the removal step took cells away
C9_Witness ==
    /\ call.outcome = "returned" /\ call.numLayers = 2
    /\ call.shell # <<>> /\ Len(call.shell) < TotalCells(call.extruded)

StrictlyInside(x, B) ==
    /\ x[1] > B[1] /\ x[1] < B[2] /\ x[2] > B[3] /\ x[2] < B[4] /\ x[3] > B[5]

\* the constraints that the step has appended
NewConstraints == SubSeq(equalDofs', Len(equalDofs) + 1, Len(equalDofs'))

\* C11: a PML call that returns appends exactly one equal-DOF constraint per
\* point of the interior mesh that is not strictly inside the shrunk bounding
\* box; each has one slave node and the DOF list [1,2,3], ties a node of 3 DOFs
\* to a node of 9 DOFs, and the k-th constraint ties the two nodes at the
\* position of the k-th such point.
C11_OneConstraintPerInterfacePoint ==
    [][(call'.outcome = "returned" /\ call'.type = "PML")
        => /\ IsPrefix(equalDofs, equalDofs')
           /\ Len(equalDofs') - Len(equalDofs) =
                  Cardinality({i \in DOMAIN AssembeledMesh.points :
                      ~StrictlyInside(AssembeledMesh.points[i].xyz,
                                      MeshBounds(AssembeledMesh))})
           /\ \A k \in DOMAIN NewConstraints :
                 /\ Len(NewConstraints[k].slaves) = 1
                 /\ NewConstraints[k].dofs = <<1, 2, 3>>
                 /\ NewConstraints[k].master # NewConstraints[k].slaves[1]
                 /\ {AssembeledMesh'.points[NewConstraints[k].master].ndf,
                     AssembeledMesh'.points[NewConstraints[k].slaves[1]].ndf} = {3, 9}
                 /\ AssembeledMesh'.points[NewConstraints[k].master].xyz =
                        AssembeledMesh'.points[NewConstraints[k].slaves[1]].xyz
                 /\ AssembeledMesh'.points[NewConstraints[k].master].xyz =
                        AssembeledMesh.points[InterfaceIdx(AssembeledMesh)[k]].xyz
                 /\ ~StrictlyInside(AssembeledMesh'.points[NewConstraints[k].master].xyz,
                                    MeshBounds(AssembeledMesh))]_vars

\* a PML call returned on a mesh with a point strictly inside, and created
\* fewer constraints than the interior mesh has points
C11_Witness ==
    /\ call.outcome = "returned" /\ call.type = "PML"
    /\ call.bounds = <<0, 2, 0, 2, 0, 2>>
    /\ Len(equalDofs) = 25

(* ---------------------------------- C12 -------------------------------- *)
\* a mesh of two coincident points with n1 and n2 DOFs
TwoPoints(n1, n2) ==
    [points |-> << [xyz |-> <<0, 0, 0>>, ndf |-> n1], [xyz |-> <<0, 0, 0>>, ndf |-> n2] >>,
     cells |-> <<>>]

\* C12 as written: in every constraint the master node has 9 DOFs and the
\* slave node has 3.
C12_AsWritten ==
    \A k \in DOMAIN equalDofs :
        /\ AssembeledMesh.points[equalDofs[k].master].ndf = 9
        /\ AssembeledMesh.points[equalDofs[k].slaves[1]].ndf = 3

\* C12, amended: in every constraint that the stitcher creates the master
\* node is the neighbour with 3 DOFs (the node of the interior mesh) and the
\* slave node is the neighbour with 9 DOFs (the node of the shell); for every
\* other pair of DOF counts of the two neighbours the loop raises the ndf
\* error and creates no constraint for that point.
C12_MasterIsInteriorNode ==
    /\ \A k \in DOMAIN equalDofs :
          /\ AssembeledMesh.points[equalDofs[k].master].ndf = 3
          /\ AssembeledMesh.points[equalDofs[k].slaves[1]].ndf = 9
    /\ \A n1 \in {3, 6, 9}, n2 \in {3, 6, 9} :
          CreateEqualDofs(TwoPoints(n1, n2), << <<1, 2>> >>, equalDofs) =
             IF n1 = 9 /\ n2 = 3
             THEN [err |-> "ok", equalDofs |-> Append(equalDofs,
                      [master |-> 2, slaves |-> <<1>>, dofs |-> <<1, 2, 3>>])]
             ELSE IF n1 = 3 /\ n2 = 9
             THEN [err |-> "ok", equalDofs |-> Append(equalDofs,
                      [master |-> 1, slaves |-> <<2>>, dofs |-> <<1, 2, 3>>])]
             ELSE [err |-> "ndf", equalDofs |-> equalDofs]

\* the stitcher has created constraints
C12_Witness ==
    /\ call.outcome = "returned" /\ call.type = "PML" /\ equalDofs # <<>>
    /\ AssembeledMesh.points[equalDofs[1].master].ndf = 3

(* ---------------------------------- C13 -------------------------------- *)
\* the unit cube of one cell: MaterialTag 1, ElementTag 1, Region 1, Core 0,
\* ndf 3 at its 8 points
UnitCube == WithRegion(AssembledMeshOf(1, 1, 1, 1, 0, FALSE), 1)

\* C13 as written: on the unit cube with one stdBrick element of an
\* ElasticIsotropic material, the call with numLayers = 1, numPartitions = 0,
\* "Rectangular" and type "PML" returns, has created exactly one element
\* (tag 2), every shell cell has ElementTag 2, every shell point has ndf 9, and
\* exactly 8 constraints exist, one per vertex of the cube.
C13_AsWritten ==
    [][(/\ AssembeledMesh = UnitCube
        /\ elements = <<[element_type |-> "stdBrick", ndof |-> 3,
                         material |-> ElasticIsotropic]>>
        /\ equalDofs = <<>>
        /\ call.outcome = "idle" /\ call'.outcome # "idle"
        /\ call'.numLayers = 1 /\ call'.numPartitions = 0
        /\ call'.geometry = "Rectangular" /\ call'.type = "PML"
        /\ call'.progress_callback = NoCallback)
        => /\ call'.outcome = "returned"
           /\ Len(elements') = 2 /\ elements'[2].element_type = "PML3D"
           /\ \A q \in DOMAIN call'.shell : call'.shell[q].ElementTag = 2
           /\ \A q \in DOMAIN call'.shell :
                 \A n \in 1..8 : AssembeledMesh'.points[AssembeledMesh'.cells[q].conn[n]].ndf = 9
           /\ Len(equalDofs') = 8
           /\ {AssembeledMesh'.points[equalDofs'[k].master].xyz : k \in DOMAIN equalDofs'}
                 = {UnitCube.points[v].xyz : v \in 1..8}]_vars

(* ---------------------------------- C14 -------------------------------- *)
\* the uniform structured meshes
UniformMeshes ==
    {AssembledMeshOf(nx, ny, nz, p, cp, FALSE) :
        nx \in 1..MaxN, ny \in 1..MaxN, nz \in 1..MaxN, p \in 1..MaxElements,
        cp \in 0..1}

\* C14 as written: a PML call on a uniform structured mesh never raises the
\* error of the distance check.
C14_AsWritten ==
    [][(AssembeledMesh \in UniformMeshes /\ call'.outcome # "idle"
        /\ call'.type = "PML")
        => call'.err # "distance"]_vars

(* ---------------------------------- C20 -------------------------------- *)
\* the cells of the assembled mesh that are not cells of the shell
InteriorCells ==
    {AssembeledMesh.cells[q] : q \in (Len(call.shell) + 1)..Len(AssembeledMesh.cells)}

LeqQ(a, b) == a[1] * b[2] <= b[1] * a[2]
Percentage(a) == a[2] > 0 /\ 0 <= a[1] /\ a[1] <= 100 * a[2]
NonDecreasing(ps) == \A i \in DOMAIN ps : i > 1 => LeqQ(ps[i - 1], ps[i])

\* C15: the percentages that one addAbsorbingLayer call and one export_to_tcl
\* call have passed to the progress callback are each non-decreasing in the
\* order of the calls of the callback, and every one lies in 0..100.
C15_ProgressMonotone ==
    /\ NonDecreasing(call.progress)
    /\ \A i \in DOMAIN call.progress : Percentage(call.progress[i])
    /\ NonDecreasing(export.progress)
    /\ \A i \in DOMAIN export.progress : Percentage(export.progress[i])

\* both loops of an addAbsorbingLayer call have reported, and then every
\* phase of an export_to_tcl call, the constraints of two Cores included
C15_Witness ==
    /\ call.outcome = "returned" /\ call.progress_callback = "returns"
    /\ Len(call.progress) = 2 * Len(call.clipped) /\ Len(call.clipped) >= 4
    /\ call.progress[Len(call.clipped)] = <<80 * Len(call.clipped), Len(call.clipped)>>
    /\ export.outcome = "returned" /\ export.progress_callback = "returns"
    /\ Len(export.progress) = 6 + Len(AssembeledMesh.cells) + Len(RegionsOf(AssembeledMesh)) + 2
    /\ equalDofs # <<>>

(* ---------------------------------- C16 -------------------------------- *)
\* the arguments of the call just made, with a callback that returns
SameCallWithCallback ==
    [numLayers |-> call'.numLayers, numPartitions |-> call'.numPartitions,
     partitionAlgo |-> call'.partitionAlgo, geometry |-> call'.geometry,
     type |-> call'.type, matchDamping |-> call'.matchDamping,
     progress_callback |-> "returns"]

\* C16 as written: whatever the callback is (absent, returning, raising), the
\* call ends as the same call with a callback that returns: same outcome, same
\* assembled mesh, elements, dampings, regions and constraints.
C16_AsWritten ==
    [][(call.outcome = "idle" /\ call'.outcome # "idle")
        => \E R \in {CallResult(AssembeledMesh, elements, dampings, regions, equalDofs,
                                SameCallWithCallback)} :
              /\ call'.outcome = R.outcome
              /\ AssembeledMesh' = R.mesh /\ elements' = R.elements
              /\ dampings' = R.dampings /\ regions' = R.regions
              /\ equalDofs' = R.equalDofs]_vars

(* ---------------------------------- C17 -------------------------------- *)
Registered == {Material._materials[t] : t \in DOMAIN Material._materials}

\* C17 as written: get_material_by_name(name) returns the instance registered
\* under name (its user_name is name, and its tag is its key in the registry)
\* when name is registered, and raises KeyError when it is not.
C17_AsWritten ==
    matcall.op = "get_material_by_name"
        => IF matcall.name \in DOMAIN Material._names
           THEN /\ matcall.outcome = "returned"
                /\ matcall.ret = PyRef(Material._names[matcall.name])
                /\ instances[matcall.ret.v].user_name = matcall.name
           ELSE matcall.outcome = "KeyError"

(* ---------------------------------- C18 -------------------------------- *)
TagsContiguous ==
    /\ DOMAIN Material._materials
          = Material._start_tag .. (Material._start_tag + Cardinality(Registered) - 1)
    /\ \A t, u \in DOMAIN Material._materials :
          Material._materials[t] = Material._materials[u] => t = u
    /\ DOMAIN Material._matTags = Registered
    /\ \A t \in DOMAIN Material._materials :
          /\ instances[Material._materials[t]].tag = t
          /\ Material._matTags[Material._materials[t]] = t
    /\ Material._next_tag = Material._start_tag + Cardinality(Registered)

NamesUnique ==
    /\ \A a, b \in Registered :
          instances[a].user_name = instances[b].user_name => a = b
    /\ DOMAIN Material._names = {instances[a].user_name : a \in Registered}
    /\ \A n \in DOMAIN Material._names : instances[Material._names[n]].user_name = n

\* C19: constructing a material under a registered user name raises ValueError
\* and changes neither the registry, nor the name map, nor _next_tag; no two
\* registered materials share a user name; delete_material frees the name of
\* the deleted material and clear_all frees every name, and constructing under
\* a free name succeeds.
C19_NamesUnique ==
    /\ NamesUnique
    /\ [][/\ NamesUnique'
           /\ (matcall'.op = "__init__"
                => IF matcall'.name \in DOMAIN Material._names
                   THEN matcall'.outcome = "ValueError" /\ UNCHANGED <<Material, instances>>
                   ELSE /\ matcall'.outcome = "returned"
                        /\ matcall'.name \in DOMAIN Material._names')
           /\ ((matcall'.op = "delete_material" /\ matcall'.tag \in DOMAIN Material._materials)
                => instances[Material._materials[matcall'.tag]].user_name
                      \notin DOMAIN Material._names')
           /\ (matcall'.op = "clear_all" => DOMAIN Material._names' = {})]_vars

\* a name was registered, freed, registered again by a second instance, and a
\* third construction under it has just raised
C19_Witness ==
    /\ matcall.op = "__init__" /\ matcall.outcome = "ValueError"
    /\ \E a, b \in DOMAIN instances :
          /\ a < b /\ a \notin Registered /\ b \in Registered
          /\ instances[a].user_name = matcall.name
          /\ instances[b].user_name = matcall.name

(* ---------------------------------- C21 -------------------------------- *)
\* the arguments of the call just made
CallArgs ==
    [numLayers |-> call'.numLayers, numPartitions |-> call'.numPartitions,
     partitionAlgo |-> call'.partitionAlgo, geometry |-> call'.geometry,
     type |-> call'.type, matchDamping |-> call'.matchDamping,
     progress_callback |-> call'.progress_callback]

\* the shell of the call just made as it is after the removal step, before the
\* PML retag, the partition and the region are written on it
ShellBeforeRetag ==
    Combine(Extrude(Regionize(
        Locals(AssembeledMesh, elements, dampings, regions, equalDofs, CallArgs)))).shell

ReturnedPML == call.outcome = "idle" /\ call'.outcome = "returned" /\ call'.type = "PML"

\* C21: a PML call that returns has created as many elements as the shell had
\* distinct ElementTag values before the retag, all of them PML3D, and two
\* shell cells have the same ElementTag after the retag exactly when they had
\* the same ElementTag before it.
C21_OnePMLElementPerSourceElement ==
    [][ReturnedPML =>
        \E before \in {ShellBeforeRetag} :
           /\ Len(before) = Len(call'.shell)
           /\ Len(elements') - Len(elements)
                 = Cardinality({before[q].ElementTag : q \in DOMAIN before})
           /\ \A t \in (Len(elements) + 1)..Len(elements') :
                 elements'[t].element_type = "PML3D"
           /\ \A p, q \in DOMAIN before :
                 (call'.shell[p].ElementTag = call'.shell[q].ElementTag)
                    <=> (before[p].ElementTag = before[q].ElementTag)]_vars

\* a PML call has returned with two PML elements for a shell of more cells
C21_Witness ==
    /\ call.outcome = "returned" /\ call.type = "PML"
    /\ Len(elements) = 4
    /\ elements[3].element_type = "PML3D" /\ elements[4].element_type = "PML3D"
    /\ {call.shell[q].ElementTag : q \in DOMAIN call.shell} = {3, 4}
    /\ Len(call.shell) > 4

(* ---------------------------------- C22 -------------------------------- *)
\* C22 as written: after the retag step every cell's ElementTag is map[t], t
\* being its ElementTag before the step and map the old-to-new map, for every
\* set of old tags and every assignment of new tags by the registry.
C22_AsWritten ==
    (probe.fn = "retag" /\ probe.outcome = "returned")
        => \A q \in DOMAIN probe.cells :
              probe.out[q].ElementTag = probe.PMLTags[probe.cells[q].ElementTag]

(* ---------------------------------- C23 -------------------------------- *)
BadForPML(ele) ==
    \/ ele.element_type \notin {"stdBrick", "bbarBrick", "SSPbrick"}
    \/ ele.material.material_name # "ElasticIsotropic"
    \/ ele.material.material_type # "nDMaterial"

\* the call just made has passed the checks of its arguments
ChecksPassed ==
    /\ call.outcome = "idle" /\ call'.outcome # "idle"
    /\ EntryCheck(AssembeledMesh, CallArgs).kind = "ok"
    /\ RectCheck(AssembeledMesh, CallArgs).kind = "ok"
    /\ CoreCheck(call'.numPartitions, MaxCore(AssembeledMesh)).kind = "ok"

\* C23: a PML call in which some ElementTag of the shell is the tag of an
\* element that is not a stdBrick, bbarBrick or SSPbrick, or whose material is
\* not an ElasticIsotropic nDMaterial, raises ValueError; the assembled mesh
\* is not replaced and no constraint, damping or region is created.
C23_IncompatibleElementRaisesEarly ==
    [][(/\ ChecksPassed /\ call'.type = "PML"
        /\ \E before \in {ShellBeforeRetag} :
              \E q \in DOMAIN before : BadForPML(elements[before[q].ElementTag]))
        => /\ call'.outcome = "ValueError"
           /\ call'.err \in {"eleType", "material"}
           /\ UNCHANGED <<AssembeledMesh, equalDofs, dampings, regions>>]_vars

\* the first call has failed on the type of the second element of the shell,
\* after the PML element of the first was created
C23_Witness ==
    /\ call.outcome = "ValueError" /\ call.err = "eleType" /\ call.type = "PML"
    /\ calls = 1
    /\ Len(elements) = 3 /\ elements[2].element_type = "PML3D"
    /\ elements[2].material = J2Plasticity
    /\ AssembeledMesh = AssembledMeshOf(MaxN, MaxN, 1, 2, 0, FALSE)
    /\ dampings = <<>> /\ regions = <<>> /\ equalDofs = <<>>

(* ---------------------------------- C24 -------------------------------- *)
\* C24 as written: every cell of the block extruded from a cell carries that
\* cell's MaterialTag, ElementTag and Region and the cell's region code as
\* AbsorbingRegion, for every non-negative tag value, the stored value being
\* the source value itself.
C24_AsWritten ==
    (probe.fn = "extrude" /\ probe.outcome = "returned")
        => \A q \in DOMAIN probe.out :
              /\ probe.out[q].MaterialTag = probe.src.MaterialTag
              /\ probe.out[q].ElementTag = probe.src.ElementTag
              /\ probe.out[q].Region = probe.src.Region
              /\ probe.out[q].AbsorbingRegion = probe.absregion

(* ---------------------------------- C25 -------------------------------- *)
\* the two neighbours of each interface point, in the other order than
\* TwoNearest gives them
OtherOrder(M, m, ip) ==
    [q \in DOMAIN ip |-> << TwoNearest(M, m.points[ip[q]].xyz)[2],
                            TwoNearest(M, m.points[ip[q]].xyz)[1] >>]

\* C25: a PML call that returns has created its constraints in the order of
\* increasing index of the interface points of the interior mesh (the k-th
\* constraint has the node of the k-th interface point as master), and the
\* sequence is the same whichever of the two coincident nodes the neighbour
\* query returns first: master, slave and DOF list at each position.
C25_ConstraintsInPointOrder ==
    [][(call'.outcome = "returned" /\ call'.type = "PML")
        => \E ip \in {InterfaceIdx(AssembeledMesh)} :
              /\ \A k, l \in DOMAIN ip : k < l => ip[k] < ip[l]
              /\ Len(NewConstraints) = Len(ip)
              /\ \A k \in DOMAIN ip :
                    /\ AssembeledMesh'.points[NewConstraints[k].master].ndf = 3
                    /\ AssembeledMesh'.points[NewConstraints[k].master].xyz
                          = AssembeledMesh.points[ip[k]].xyz
              /\ NewConstraints
                    = CreateEqualDofs(AssembeledMesh',
                          Seq1(OtherOrder(AssembeledMesh', AssembeledMesh, ip)),
                          <<>>).equalDofs]_vars

\* a PML call returned on a mesh of 2 x 2 x 1 cells, 17 of whose 18 points
\* are interface points (the middle of the top face is not)
C25_Witness ==
    /\ call.outcome = "returned" /\ call.type = "PML"
    /\ call.bounds = <<0, 2, 0, 2, 0, 1>>
    /\ Len(equalDofs) = 17
    /\ \A k \in 1..16 :
          AssembeledMesh.points[equalDofs[k].master].xyz
             # AssembeledMesh.points[equalDofs[k + 1].master].xyz

(* ---------------------------------- C26 -------------------------------- *)
\* an export_to_tcl call whose arguments let it reach the file sections
ExportRan ==
    /\ export.outcome # "idle"
    /\ export.filename # NoFilename
    /\ export.progress_callback # "raises"

\* each element is written under the Core of its cell, with every node of it
\* declared under that Core at or before it, and no node twice under a Core
NodesAndElementsRight(m, blocks) ==
    /\ Len(blocks) = Len(m.cells)
    /\ \A q \in DOMAIN blocks :
          /\ blocks[q].pid = m.cells[q].Core
          /\ blocks[q].element.eleTag = q
          /\ blocks[q].element.nodeTag = m.cells[q].conn
          /\ \A n \in Range(m.cells[q].conn) :
                \E b \in 1..q : /\ blocks[b].pid = blocks[q].pid
                                /\ n \in Range(blocks[b].nodes)
          /\ \A i, j \in DOMAIN blocks[q].nodes :
                i # j => blocks[q].nodes[i] # blocks[q].nodes[j]
          /\ \A b \in 1..(q - 1) :
                blocks[b].pid = blocks[q].pid
                   => Range(blocks[b].nodes) \cap Range(blocks[q].nodes) = {}

\* C26 as written: for every mesh whose Core values are non-negative
\* integers the export does not fail, every element is written inside the
\* conditional on its cell's Core, every node of it is declared under the
\* same Core at or before the element line, and no node is declared twice
\* under the same Core.
C26_AsWritten ==
    ExportRan
       => /\ export.outcome = "returned"
          /\ NodesAndElementsRight(AssembeledMesh, export.file.elements)

(* ---------------------------------- C27 -------------------------------- *)
\* the nodes of a constraint
NodesOf(c) == {c.master} \cup Range(c.slaves)

\* C27 as written: after an export that returns, every constraint of the
\* collection is written, unchanged, in the block of every Core that has its
\* master or one of its slaves among the nodes of its elements, and every
\* node of a written constraint that is not a node of the Core's elements is
\* declared in the block ahead of the constraint lines.
C27_AsWritten ==
    export.outcome = "returned"
       => \A core \in Range(CoresOf(AssembeledMesh)) :
             \E incore \in {InCore(AssembeledMesh, core)} :
                /\ \A k \in DOMAIN equalDofs :
                      (NodesOf(equalDofs[k]) \cap incore # {})
                         => \E b \in DOMAIN export.file.constraints :
                               /\ export.file.constraints[b].pid = core
                               /\ equalDofs[k]
                                     \in Range(export.file.constraints[b].constraints)
                /\ \A b \in DOMAIN export.file.constraints :
                      (export.file.constraints[b].pid = core)
                         => \A c \in Range(export.file.constraints[b].constraints) :
                               NodesOf(c) \ incore
                                  \subseteq Range(export.file.constraints[b].masters)
                                       \cup Range(export.file.constraints[b].slaves)

(* ---------------------------------- C28 -------------------------------- *)
\* the keys are 1..n, each once, in the order of iteration, and the tag
\* attribute of every registered constraint is its key
RegistryRight(C) ==
    /\ \A i \in DOMAIN C._constraints :
          /\ C._constraints[i].key = i
          /\ C.objects[C._constraints[i].value].tag = i
    /\ \A i, j \in DOMAIN C._constraints :
          i # j => C._constraints[i].value # C._constraints[j].value

\* the sequence s without the elements that are not in S
Restrict(s, S) ==
    LET Kept(x) == x \in S
    IN  SelectSeq(s, Kept)

\* C28: after any sequence of creations and remove_constraint calls the
\* registered single-point constraints have the tags 1..n with no gap or
\* duplicate and each constraint's tag attribute equals its key; a creation
\* overwrites no registered constraint; removing a tag that is not registered
\* changes nothing; a removal keeps the relative order of the others.
C28_RegistryTagsDense ==
    [][/\ RegistryRight(SPConstraint')
       /\ (Len(SPConstraint'.objects) > Len(SPConstraint.objects))
             => /\ IsPrefix(Values(SPConstraint._constraints),
                            Values(SPConstraint'._constraints))
                /\ Len(SPConstraint'._constraints) = Len(SPConstraint._constraints) + 1
       /\ \A tag \in 0..(MaxSP + 1) :
             remove_constraint(tag)
                => IF tag \in Keys(SPConstraint._constraints)
                   THEN \E removed \in {SPConstraint._constraints[tag].value} :
                          Values(SPConstraint'._constraints)
                             = Restrict(Values(SPConstraint._constraints),
                                        Range(Values(SPConstraint._constraints))
                                           \ {removed})
                   ELSE UNCHANGED SPConstraint]_vars

\* three constraints are registered after a fourth, created second, was
\* removed: the third and fourth objects have the tags 2 and 3
C28_Witness ==
    /\ Values(SPConstraint._constraints) = <<1, 3, 4>>
    /\ SPConstraint.objects[3].tag = 2
    /\ SPConstraint.objects[4].tag = 3

(* ---------------------------------- C29 -------------------------------- *)
\* the unit grid cells of the box B grown by L cells at the left, right, front,
\* back and bottom, without the cells of B itself
ExpectedShell(B, L) ==
    {[lo |-> <<x, y, z>>, hi |-> <<x + 1, y + 1, z + 1>>] :
        x \in (B[1] - L)..(B[2] + L - 1), y \in (B[3] - L)..(B[4] + L - 1),
        z \in (B[5] - L)..(B[6] - 1)}
    \ {[lo |-> <<x, y, z>>, hi |-> <<x + 1, y + 1, z + 1>>] :
        x \in B[1]..(B[2] - 1), y \in B[3]..(B[4] - 1), z \in B[5]..(B[6] - 1)}

\* the boxes of the shell cells, in the order of the shell
BoxesOf(shell) == [q \in DOMAIN shell |-> [lo |-> shell[q].lo, hi |-> shell[q].hi]]

\* a call that went past the removal step: it returned, or the stitcher's
\* distance check stopped it
PastRemoval(c) == c.outcome # "idle" /\ c.err \in {"ok", "distance"}

\* C29 as written: for every uniform structured interior mesh of nx x ny x nz
\* cells (each >= 1) and every numLayers >= 1 the shell after the removal
\* step is the set of grid cells of the box extended by numLayers cells on
\* the left, right, front, back and bottom minus the interior cells, each
\* cell once.
C29_AsWritten ==
    [][(AssembeledMesh \in UniformMeshes /\ PastRemoval(call'))
        => \E boxes \in {BoxesOf(call'.shell)} :
              /\ Range(boxes) = ExpectedShell(call'.bounds, call'.numLayers)
              /\ \A i, j \in DOMAIN boxes : i # j => boxes[i] # boxes[j]]_vars

(* ---------------------------------- C30 -------------------------------- *)
\* a PML call has completed: the mesh has the points of 9 DOFs of its shell
\* and the constraints that tie them
FirstPMLSucceeded ==
    /\ calls = MaxCalls
    /\ equalDofs # <<>>
    /\ \E p \in DOMAIN AssembeledMesh.points : AssembeledMesh.points[p].ndf = NDF_PML

SecondPML ==
    /\ FirstPMLSucceeded
    /\ call.outcome = "idle" /\ call'.outcome # "idle" /\ call'.type = "PML"

=============================================================================
